---------------------------- MODULE Spec2Model ----------------------------
(***************************************************************************)
(* Model of the OODA brand-reputation pipeline: the RSS ingest filter      *)
(* (collect_rss.py), the Orient stage (ooda_orient.py) and the Decide      *)
(* stage (ooda_decide.py) over the three tables of init_db.py.             *)
(*                                                                         *)
(* Text is modelled as sequences of one-character strings, so that         *)
(* str.strip, str.lower, str.upper, the substring test and rsplit are      *)
(* computed, not assumed.  A table is the sequence of its rows in          *)
(* insertion order; the AUTOINCREMENT id of a row is its position.         *)
(***************************************************************************)
EXTENDS Integers, Sequences, FiniteSets, TLC

(***************************************************************************)
(* Bounds of the model.                                                    *)
(***************************************************************************)
\* number of ingest runs explored
MaxCollect == 2
\* number of Orient invocations explored (all processes together)
MaxOrient == 2
\* number of Decide invocations explored (all processes together)
MaxDecide == 2
\* number of invocations of any stage explored
MaxRuns == 4
\* the clock reading datetime.now(), in days; it does not move in a behaviour
Now == 20
\* the raw items that wait for Orient in the store of SpecPool
PoolItems == 31
\* number of ActRun rows explored
MaxAct == 2
\* the decided items of the large stores of SpecAct
ActItems == 13
\* the OrientRecords in the window of the large store of SpecDecideLive
LiveItems == 21
\* the raw items of the store of SpecOrientLive and SpecTwin
TwinItems == 7
\* decided items in the largest store the Act stage aggregates
ManyItems == 51

(***************************************************************************)
(* Program constants.                                                      *)
(***************************************************************************)
\* collect_rss: days_back default
days_back == 10
\* fetch_recent_orient_with_raw / fetch_full_ooda_view: datetime('now','-7 days')
window_days == 7
\* ooda_decide.main: fetch_recent_orient_with_raw(db_path, brand, limit=20)
decide_limit == 20
\* ooda_orient.main: chunk_size = 5
chunk_size == 5
\* ooda_act: '-7 days' of fetch_full_ooda_view, its limit, the cap of the sample
act_window_days == 7
act_limit == 50
sample_cap == 12
\* ooda_act.py, compute_stats: [:5]
top_cap == 5

\* Python's None where a struct_time is expected; a set struct is <<day>>
None == <<>>

\* a value of a JSON document as Python holds it: None (the key is absent or
\* null), a number, a string
PyNone == [kind |-> "None", v |-> 0]
PyInt(k) == [kind |-> "int", v |-> k]
PyStr(str) == [kind |-> "str", v |-> str]

\* the decimal digits, and a number below 100 written with two of them
Digit == <<"0", "1", "2", "3", "4", "5", "6", "7", "8", "9">>

num(i) == <<Digit[(i \div 10) + 1], Digit[(i % 10) + 1]>>

\* max and min of two numbers
Max(a, b) == IF a >= b THEN a ELSE b
Min(a, b) == IF a <= b THEN a ELSE b

(***************************************************************************)
(* Python str operations on sequences of characters.                       *)
(***************************************************************************)
IsSpace(c) == c \in {" ", "\t"}

LowerChar(c) ==
  CASE c = "A" -> "a" [] c = "C" -> "c" [] c = "D" -> "d" [] c = "E" -> "e"
    [] c = "F" -> "f" [] c = "G" -> "g" [] c = "H" -> "h" [] c = "I" -> "i"
    [] c = "L" -> "l" [] c = "M" -> "m" [] c = "N" -> "n" [] c = "O" -> "o"
    [] c = "P" -> "p" [] c = "R" -> "r" [] c = "S" -> "s" [] c = "T" -> "t"
    [] c = "U" -> "u" [] c = "W" -> "w" [] c = "X" -> "x" [] c = "Y" -> "y"
    [] c = "Z" -> "z" [] OTHER -> c

UpperChar(c) ==
  CASE c = "a" -> "A" [] c = "c" -> "C" [] c = "d" -> "D" [] c = "e" -> "E"
    [] c = "f" -> "F" [] c = "g" -> "G" [] c = "h" -> "H" [] c = "i" -> "I"
    [] c = "l" -> "L" [] c = "m" -> "M" [] c = "n" -> "N" [] c = "o" -> "O"
    [] c = "p" -> "P" [] c = "r" -> "R" [] c = "s" -> "S" [] c = "t" -> "T"
    [] c = "u" -> "U" [] c = "w" -> "W" [] c = "x" -> "X" [] c = "y" -> "Y"
    [] c = "z" -> "Z" [] OTHER -> c

\* str.lower()
lower(s) == [i \in 1..Len(s) |-> LowerChar(s[i])]

\* str.upper()
upper(s) == [i \in 1..Len(s) |-> UpperChar(s[i])]

RECURSIVE lstrip(_)
lstrip(s) == IF s # <<>> /\ IsSpace(Head(s)) THEN lstrip(Tail(s)) ELSE s

RECURSIVE rstrip(_)
rstrip(s) ==
  IF s # <<>> /\ IsSpace(s[Len(s)]) THEN rstrip(SubSeq(s, 1, Len(s) - 1)) ELSE s

\* str.strip()
strip(s) == rstrip(lstrip(s))

\* sub in s
contains(s, sub) ==
  \E i \in 0..(Len(s) - Len(sub)) : SubSeq(s, i + 1, i + Len(sub)) = sub

\* " ".join(s.split()): runs of whitespace become one space, the ends are cut
RECURSIVE squeeze(_)
squeeze(s) ==
  IF s = <<>> THEN <<>>
  ELSE IF IsSpace(Head(s))
       THEN IF Tail(s) = <<>> \/ IsSpace(Head(Tail(s)))
            THEN squeeze(Tail(s))
            ELSE <<" ">> \o squeeze(Tail(s))
       ELSE <<Head(s)>> \o squeeze(Tail(s))

normalize_ws(s) == squeeze(lstrip(s))

\* s.rsplit(" - ", 1)[0]: the text before the last " - ", or s when there is none
rsplit_head(s) ==
  LET sep == <<" ", "-", " ">>
  IN CHOOSE head \in
       UNION {{IF at = {} THEN t
               ELSE SubSeq(t, 1, CHOOSE last \in at : \A j \in at : j <= last) :
                 at \in {{i \in 0..(Len(t) - 3) : SubSeq(t, i + 1, i + 3) = sep}}} :
              t \in {s}} : TRUE

\* Python's `a or b` on strings
Or(a, b) == IF a # <<>> THEN a ELSE b


(***************************************************************************)
(* Configuration (config.yaml / environment) and the item sources.         *)
(***************************************************************************)
\* get_brand(cfg): the configured brand, stripped.  The name has an interior
\* run of two blanks, the one kind of name that the whitespace normalisation
\* of the stored snippet can remove from a text the ingest filter accepted.
BRAND == strip(<<" ", "A", " ", " ", "c">>)

\* cfg["observe"]["keywords"]["brand_terms"]
keywords == << <<"k">> >>

\* time.mktime reads the struct in the zone of the process: the offset, in days
tz_offset == 0

Entry(id, guid, link, title, summary, description, published, updated) ==
  [id |-> id, guid |-> guid, link |-> link, title |-> title, summary |-> summary,
   description |-> description, published_parsed |-> published,
   updated_parsed |-> updated]

\* brand in the title, dated by published
E1 == Entry(<<"g", "1">>, <<>>, <<"u", "1">>, <<"A", " ", " ", "c", " ", "-", " ", "x">>,
            <<>>, <<>>, <<15>>, None)
\* the same external id with a trailing blank, dated by updated only
E2 == Entry(<<"g", "1", " ">>, <<>>, <<"u", "2">>, <<"a", " ", " ", "c", " ", "-", " ", "z">>,
            <<"k">>, <<>>, None, <<16>>)
\* no id and no guid: keyed by its link; same story as E1 from another outlet
E3 == Entry(<<>>, <<>>, <<"u", "3">>, <<" ", "a", " ", " ", "C", " ", "-", " ", "z">>,
            <<>>, <<"d">>, <<15>>, None)
\* brand only in the summary
E4 == Entry(<<>>, <<"g", "4">>, <<"u", "4">>, <<"n">>,
            <<"k", " ", "A", " ", " ", "c">>, <<>>, <<14>>, <<15>>)
\* does not name the brand
E5 == Entry(<<"g", "5">>, <<>>, <<"u", "5">>, <<"n">>, <<"k">>, <<>>, <<15>>, None)
\* no resolvable date
E6 == Entry(<<"g", "6">>, <<>>, <<"u", "6">>, <<"A", " ", " ", "c">>, <<>>, <<>>, None, None)
\* older than the cutoff
E7 == Entry(<<"g", "7">>, <<>>, <<"u", "7">>, <<"A", " ", " ", "c">>, <<>>, <<>>, <<9>>, None)
\* no link
E8 == Entry(<<"g", "8">>, <<>>, <<" ">>, <<"A", " ", " ", "c">>, <<>>, <<>>, <<15>>, None)

\* six entries with six normalised titles; the first four name the brand in
\* the summary only, the last two in the title
B1 == Entry(<<"b", "1">>, <<>>, <<"v", "1">>, <<"m">>, <<"A", " ", " ", "c">>, <<>>, <<15>>, None)
B2 == Entry(<<"b", "2">>, <<>>, <<"v", "2">>, <<"n">>, <<"A", " ", " ", "c">>, <<>>, <<15>>, None)
B3 == Entry(<<"b", "3">>, <<>>, <<"v", "3">>, <<"o">>, <<"A", " ", " ", "c">>, <<>>, <<15>>, None)
B4 == Entry(<<"b", "4">>, <<>>, <<"v", "4">>, <<"p">>, <<"A", " ", " ", "c">>, <<>>, <<15>>, None)
B5 == Entry(<<"b", "5">>, <<>>, <<"v", "5">>, <<"A", " ", " ", "c", " ", "x">>, <<>>, <<>>, <<15>>, None)
B6 == Entry(<<"b", "6">>, <<>>, <<"v", "6">>, <<"A", " ", " ", "c", " ", "z">>, <<>>, <<>>, <<15>>, None)

\* what a fetch of each configured feed may return as parsed.entries
FeedContents ==
  [f1 |-> {<<E1, E2, E5>>, <<E2, E1, E1>>, <<E4, E6, E8>>},
   f2 |-> {<<E3, E1, E7>>, <<E4, E3>>}]

Feeds == DOMAIN FeedContents

(***************************************************************************)
(* State.                                                                  *)
(***************************************************************************)
VARIABLES
  items_raw,      \* table items_raw, rows in insertion order
  items_orient,   \* table items_orient
  items_decide,   \* table items_decide
  pc,             \* per invocation slot: where the stage's main() stands
  batches,        \* Orient: the batches submitted to the pool
  to_process,     \* Decide: the records submitted to the pool
  pending,        \* indices of the futures that have not completed
  results,        \* the results list, in completion order
  txn,            \* rows inserted on the connection and not yet committed
  runs,           \* invocations started so far, per stage
  prev,           \* what the last invocation that returned did: its stage,
                  \* whether no call or INSERT raised and every id was echoed
                  \* once (clean), the rows it committed (new_rows), the rows
                  \* from answers among them (done), the calls that raised
  smoke,          \* per invocation slot: how the smoke-test call ended
  runs_act,       \* table runs_act
  act_call,       \* Act: the payload of the synthesis call in flight
  orch,           \* the orchestrator: its arguments, where its main() stands,
                  \* the stages it has invoked, what collect_rss.main()
                  \* returned to it, how the process ended
  cand,           \* the ingest filter on one candidate: the subject name
                  \* and the time zone of the process, the feed entry, and
                  \* whether the loop went on to insert it
  fetched,        \* the last ingest run: the feeds whose fetch raised, the
                  \* parsed_feeds list, the rows of items_raw it started from
  report,         \* per invocation slot: the last message the stage printed
                  \* and the counters done and skipped of its main()
  session         \* the dashboard: APP_PASSWORD, st.session_state (authed,
                  \* app_pwd), where the script run stands, what the last
                  \* run rendered, the orchestrator subprocesses launched

vars == <<items_raw, items_orient, items_decide, pc, batches, to_process,
          pending, results, txn, runs, prev, smoke, runs_act, act_call, orch,
          cand, fetched, report, session>>

Procs == {1, 2}

(***************************************************************************)
(* collect_rss.py                                                          *)
(***************************************************************************)
\* _parse_entry_datetime: the first of published_parsed, updated_parsed that
\* is set, read by time.mktime
\* time.mktime(st) in a process whose zone is tz clock units east of UTC: the
\* struct, which feedparser fills in UTC, is read as local time
local_mktime(st, tz) == <<st[1] - tz>>

mktime(st) == local_mktime(st, tz_offset)

\* _parse_entry_datetime(entry) in a process whose zone is tz clock units east of UTC
parse_entry_datetime_in(entry, tz) ==
  IF entry.published_parsed # None THEN local_mktime(entry.published_parsed, tz)
  ELSE IF entry.updated_parsed # None THEN local_mktime(entry.updated_parsed, tz)
  ELSE None

_parse_entry_datetime(entry) == parse_entry_datetime_in(entry, tz_offset)

cutoff == Now - days_back

\* the dedup SELECT left out
raw_exists_missing(raw, source, source_item_id) == FALSE

\* SELECT 1 FROM items_raw WHERE source=? AND source_item_id=? LIMIT 1
raw_exists(raw, source, source_item_id) ==
  \E i \in 1..Len(raw) :
     raw[i].source = source /\ raw[i].source_item_id = source_item_id

\* UNIQUE(source, source_item_id): whether the INSERT of this key is refused
unique_violation(raw, source, source_item_id) ==
  \E i \in 1..Len(raw) :
     raw[i].source = source /\ raw[i].source_item_id = source_item_id

\* the keyword filtering asking for a configured keyword besides the brand
text_filter_with_keyword(entry, brand_cfg) ==
  LET text == lower(entry.title \o <<" ">> \o entry.summary)
      brand == lower(brand_cfg)
  IN /\ ~(brand # <<>> /\ ~contains(text, brand))
     /\ \E i \in 1..Len(keywords) : contains(text, lower(keywords[i]))

\* the keyword filtering of the loop, for the brand get_brand(cfg) returns:
\* whether the entry is not skipped by it
text_filter(entry, brand_cfg) ==
  LET text == lower(entry.title \o <<" ">> \o entry.summary)
      brand == lower(brand_cfg)
      brand_terms == <<brand>> \o keywords
      brand_matches ==
        Cardinality({i \in 1..Len(brand_terms) : contains(text, lower(brand_terms[i]))})
  IN /\ ~(brand # <<>> /\ ~contains(text, brand))
     /\ ~(brand_matches < 1)

\* the date test of the loop in a process whose zone is tz clock units east of UTC
date_filter(entry, tz) ==
  LET published_dt == parse_entry_datetime_in(entry, tz)
  IN /\ published_dt # None
     /\ ~(published_dt[1] < cutoff)

\* the tests of the loop before the dedup SELECT
filter_as(entry, brand_cfg, tz) ==
  LET title == strip(entry.title)
      link == strip(entry.link)
  IN /\ title # <<>> /\ link # <<>>
     /\ text_filter(entry, brand_cfg)
     /\ date_filter(entry, tz)

\* whether the loop body of collect_rss reaches the dedup SELECT for this entry
passes_filter(entry) == filter_as(entry, BRAND, tz_offset)

\* one iteration of the loop over entries.  st.rows are the rows of items_raw
\* as the connection sees them, st.new_items the counter, st.raised whether an
\* INSERT has raised (the loop is left and nothing is committed)
ingest_entry(st, entry) ==
  LET title == strip(entry.title)
      link == strip(entry.link)
      source_item_id == strip(Or(Or(entry.id, entry.guid), link))
      brand == lower(BRAND)
      snippet == normalize_ws(strip(Or(entry.summary, entry.description)))
  IN IF st.raised \/ ~passes_filter(entry) THEN st
     ELSE IF raw_exists(st.rows, "rss", source_item_id) THEN st
     ELSE IF unique_violation(st.rows, "rss", source_item_id)
          THEN [st EXCEPT !.raised = TRUE]
     ELSE [st EXCEPT
             !.rows = Append(st.rows, [id |-> Len(st.rows) + 1,
                                       source |-> "rss",
                                       source_item_id |-> source_item_id,
                                       brand |-> Or(BRAND, brand),
                                       title |-> title,
                                       url |-> link,
                                       content |-> snippet,
                                       published_at |-> _parse_entry_datetime(entry)[1]]),
             !.new_items = st.new_items + 1]

\* the loop over the entries of one parsed feed
RECURSIVE ingest_entries(_, _)
ingest_entries(st, entries) ==
  IF entries = <<>> THEN st
  ELSE ingest_entries(ingest_entry(st, Head(entries)), Tail(entries))

\* the loop over parsed_feeds
RECURSIVE ingest_feeds(_, _)
ingest_feeds(st, parsed_feeds) ==
  IF parsed_feeds = <<>> THEN st
  ELSE ingest_feeds(ingest_entries(st, Head(parsed_feeds)), Tail(parsed_feeds))

\* the orders in which the fetched feeds can complete: every sequence without
\* repetition over a subset of the feeds (a feed that raised is left out)
ParsedFeedChoices ==
  LET one == {<<e>> : e \in FeedContents.f1} \cup {<<e>> : e \in FeedContents.f2}
      two == {<<a, b>> : a \in FeedContents.f1, b \in FeedContents.f2}
               \cup {<<b, a>> : a \in FeedContents.f1, b \in FeedContents.f2}
  IN {<<>>} \cup one \cup two

\* collect_rss(cfg) on the feeds that were fetched, from the committed table:
\* the state of the connection when the loop is left
collect_rss(raw, parsed_feeds) ==
  ingest_feeds([rows |-> raw, new_items |-> 0, raised |-> FALSE], parsed_feeds)

(***************************************************************************)
(* ooda_orient.py                                                          *)
(***************************************************************************)
\* what the service may put in reputational_risk and severity of one answer
OrientClassifications ==
  {[reputational_risk |-> "low", severity |-> PyInt(20)]}

\* an item_id that is not in the batch: the batch is in descending order of
\* id, so the id after its first is the id of another raw item or of none
foreign_id(batch) == Head(batch).id + 1

\* SELECT ... FROM items_raw r LEFT JOIN items_orient o ON o.raw_item_id = r.id
\* WHERE o.id IS NULL ORDER BY r.id DESC
RECURSIVE unoriented_desc(_, _, _)
unoriented_desc(raw, orient, i) ==
  IF i = 0 THEN <<>>
  ELSE IF \E j \in 1..Len(orient) : orient[j].raw_item_id = raw[i].id
       THEN unoriented_desc(raw, orient, i - 1)
       ELSE <<raw[i]>> \o unoriented_desc(raw, orient, i - 1)

\* the normalised title fetch_latest_items dedups on
title_norm(r) == rsplit_head(lower(strip(r.title)))

\* the dedup loop of fetch_latest_items
\* the selection without the dedup loop
dedup_none(rows_raw, seen) == rows_raw

\* (a row is kept when its title is not in seen, which holds the titles of
\* the rows kept before it: when no row before it has its title)
dedup_titles(rows_raw, seen) ==
  CHOOSE rows \in
    UNION {{[n \in 1..Cardinality(kept) |->
               rows_raw[CHOOSE k \in kept : Cardinality({j \in kept : j < k}) = n - 1]] :
              kept \in {{k \in 1..Len(rows_raw) :
                           /\ norm[k] \notin seen
                           /\ \A j \in 1..(k - 1) : norm[j] # norm[k]}}} :
           norm \in {[k \in 1..Len(rows_raw) |-> title_norm(rows_raw[k])]}} : TRUE

\* the selection with the dedup made over all raw items, those with an
\* OrientRecord included, before these are left out
fetch_deduped_first(raw, orient) ==
  CHOOSE rows \in
    UNION {{SelectSeq(reps, LAMBDA r : r.id \notin done) :
              reps \in {dedup_titles(all, {})}} :
           all \in {[k \in 1..Len(raw) |-> raw[Len(raw) + 1 - k]]},
           done \in {{orient[j].raw_item_id : j \in 1..Len(orient)}}} : TRUE

\* fetch_latest_items(db_path, limit=0)
fetch_latest_items(raw, orient) ==
  CHOOSE rows \in {dedup_titles(rows_raw, {}) :
                     rows_raw \in {unoriented_desc(raw, orient, Len(raw))}} : TRUE

\* [items[i:i + chunk_size] for i in range(0, len(items), chunk_size)]
chunks(items) ==
  [b \in 1..((Len(items) + chunk_size - 1) \div chunk_size) |->
     SubSeq(items, (b - 1) * chunk_size + 1, Min(b * chunk_size, Len(items)))]

\* k copies of x
copies(x, k) == [i \in 1..k |-> x]

\* the answers with up to maxEcho echoes of each item of the batch
RECURSIVE echo_seqs(_, _, _)
echo_seqs(batch, cls, maxEcho) ==
  IF batch = <<>> THEN {<<>>}
  ELSE {copies([item_id |-> Head(batch).id,
                reputational_risk |-> cls.reputational_risk,
                severity |-> cls.severity], k) \o rest :
          k \in 0..maxEcho, rest \in echo_seqs(Tail(batch), cls, maxEcho)}

\* payload.get("items", []) of orient_batch, for every answer the service may
\* give to this batch: each item echoed 0, 1 or 2 times, and possibly an
\* element with an id that is not in the batch
OrientResponses(batch) ==
  UNION {UNION {{out, out \o <<[item_id |-> foreign_id(batch),
                                reputational_risk |-> cls.reputational_risk,
                                severity |-> cls.severity]>>} :
                  out \in echo_seqs(batch, cls, 2)} :
           cls \in OrientClassifications}

\* the answers that echo every item of the batch exactly once
FaithfulResponses(batch) ==
  UNION {{out \in echo_seqs(batch, cls, 1) : Len(out) = Len(batch)} :
           cls \in OrientClassifications}

\* what the service may put in reputational_risk and severity, the prompt's
\* schema being a request and not a constraint on the response
ServiceClassifications ==
  [reputational_risk : {"low", "high", "critical"},
   severity : {PyInt(20), PyInt(150), PyInt(-1)}]

\* the answers that echo every item of the batch exactly once, each with any
\* classification the service may give
RECURSIVE ClassifiedResponses(_)
ClassifiedResponses(batch) ==
  IF batch = <<>> THEN {<<>>}
  ELSE {<<[item_id |-> Head(batch).id,
           reputational_risk |-> cls.reputational_risk,
           severity |-> cls.severity]>> \o rest :
          cls \in ServiceClassifications, rest \in ClassifiedResponses(Tail(batch))}

\* the elements of the answer taken in the order of the batch: the k-th
\* element is stored for the k-th item
orient_rows_by_position(batch, out_items) ==
  [i \in 1..Min(Len(batch), Len(out_items)) |->
     [raw_item_id |-> batch[i].id, brand |-> batch[i].brand, orient |-> out_items[i]]]

\* every element of out_items stored under the item_id it carries
orient_rows_as_echoed(batch, out_items) ==
  [i \in 1..Len(out_items) |->
     [raw_item_id |-> out_items[i].item_id, brand |-> Head(batch).brand,
      orient |-> out_items[i]]]

\* the row inserted for every element of out_items whose item_id is in the
\* batch, an element echoing the same id again included
orient_rows_of(batch, out_items) ==
  LET ids == {batch[i].id : i \in 1..Len(batch)}
      item(id) == batch[CHOOSE i \in 1..Len(batch) : batch[i].id = id]
      keep == SelectSeq(out_items, LAMBDA o : o.item_id \in ids)
  IN [i \in 1..Len(keep) |->
        [raw_item_id |-> item(keep[i].item_id).id,
         brand |-> item(keep[i].item_id).brand,
         orient |-> keep[i]]]

\* the insert loop of main leaving after the first result
orient_inserts_first(res) ==
  IF res = <<>> THEN <<>> ELSE orient_rows_of(Head(res).batch, Head(res).out_items)

\* the insert loop of main over the results list
RECURSIVE orient_inserts(_)
orient_inserts(res) ==
  IF res = <<>> THEN <<>>
  ELSE orient_rows_of(Head(res).batch, Head(res).out_items) \o orient_inserts(Tail(res))

\* a commit under a uniqueness constraint on a foreign key that refuses the
\* rows whose key the table already holds
commit_unique(table, rows) ==
  LET key(r) == IF "orient_id" \in DOMAIN r THEN r.orient_id ELSE r.raw_item_id
      fresh == SelectSeq(rows, LAMBDA r : \A i \in 1..Len(table) : key(table[i]) # key(r))
  IN table \o [i \in 1..Len(fresh) |-> [id |-> Len(table) + i] @@ fresh[i]]

\* a commit that writes the rows over the table
commit_over(table, rows) ==
  [i \in 1..Len(rows) |-> [id |-> i] @@ rows[i]]

\* the rows of a committed transaction, numbered by AUTOINCREMENT
commit(table, rows) ==
  table \o [i \in 1..Len(rows) |-> [id |-> Len(table) + i] @@ rows[i]]

(***************************************************************************)
(* ooda_decide.py                                                          *)
(***************************************************************************)
S_THREAT == <<"T", "H", "R", "E", "A", "T">>
S_DEFENSE == <<"D", "E", "F", "E", "N", "S", "E">>
S_NEUTRAL == <<"N", "E", "U", "T", "R", "A", "L">>
S_OPPORTUNITY == <<"O", "P", "P", "O", "R", "T", "U", "N", "I", "T", "Y">>
S_NOISE == <<"N", "O", "I", "S", "E">>
S_low == <<"l", "o", "w">>
S_medium == <<"m", "e", "d", "i", "u", "m">>
S_high == <<"h", "i", "g", "h">>

INTENT_ENUM == {S_THREAT, S_DEFENSE, S_NEUTRAL, S_OPPORTUNITY, S_NOISE}

URGENCY_ENUM == {S_low, S_medium, S_high}

\* a key the answer does not carry, where a string is expected
Missing == <<"<missing>">>

\* JSON values in escalation_team: an array, a string, or no such key
JList(l) == [kind |-> "list", v |-> l]
JStr(c) == [kind |-> "str", v |-> c]
JMissing == [kind |-> "missing", v |-> <<>>]

\* what the service may put in each field of its answer
IntentAnswers ==
  {S_THREAT, S_DEFENSE, <<" ", "n", "o", "i", "s", "e">>,
   <<"N", "e", "u", "t", "r", "a", "l">>, <<"b", "o", "g", "u", "s">>, Missing}

UrgencyAnswers ==
  {S_low, S_high, <<"H", "I", "G", "H">>, <<" ", "M", "e", "d", "i", "u", "m", " ">>,
   <<"u", "r", "g", "e", "n", "t">>, Missing}

TeamAnswers ==
  {JList(<<>>), JList(<<"PR">>), JList(<<"PR", "Legal">>), JStr(<<"P", "R">>), JMissing}

\* json.loads(resp.choices[0].message.content), for every answer modelled
DecideAnswers ==
  [intent_framing : IntentAnswers, urgency : UrgencyAnswers,
   escalation_team : TeamAnswers, rationale : {"service"}]

\* the answers of the pipeline specification: one well-formed, one with every
\* field off the schema
PipelineAnswers ==
  {[intent_framing |-> S_THREAT, urgency |-> S_high,
    escalation_team |-> JList(<<"PR", "Legal">>), rationale |-> "service"],
   [intent_framing |-> <<"b", "o", "g", "u", "s">>, urgency |-> Missing,
    escalation_team |-> JStr(<<"P", "R">>), rationale |-> "service"]}

\* str(obj.get(key, ""))
get_str(v) == IF v = Missing THEN <<>> ELSE v

\* isinstance(team, list), for team = obj.get("escalation_team", [])
is_list(v) == v.kind \in {"list", "missing"}

\* the intent normalisation without the fallback to NEUTRAL
intent_without_fallback(obj) == upper(strip(get_str(obj.intent_framing)))

\* the intent_framing of the object decide_one returns
normalized_intent(obj) ==
  LET intent == upper(strip(get_str(obj.intent_framing)))
  IN IF intent \notin INTENT_ENUM THEN S_NEUTRAL ELSE intent

\* the urgency of the object decide_one returns: the stripped, lower-cased
\* value is only tested; the field is overwritten when the test fails
normalized_urgency(obj) ==
  LET urg == lower(strip(get_str(obj.urgency)))
  IN IF urg \notin URGENCY_ENUM THEN S_low ELSE obj.urgency

\* the escalation_team of the object decide_one returns
normalized_team(obj) ==
  IF ~is_list(obj.escalation_team) THEN JList(<<>>) ELSE obj.escalation_team

\* the hard validation lowering a high urgency of a DEFENSE answer to medium
decide_one_capped(obj) ==
  LET capped == lower(strip(get_str(normalized_urgency(obj)))) = S_high
                  /\ normalized_intent(obj) = S_DEFENSE
  IN [obj EXCEPT !.intent_framing = normalized_intent(obj),
                 !.urgency = IF capped THEN S_medium ELSE normalized_urgency(obj),
                 !.escalation_team = normalized_team(obj)]

\* decide_one: the answer after the hard validation
decide_one(obj) ==
  [obj EXCEPT !.intent_framing = normalized_intent(obj),
              !.urgency = normalized_urgency(obj),
              !.escalation_team = normalized_team(obj)]

\* the fixed record of the brand relevance check
noise_decide ==
  [intent_framing |-> S_NOISE, urgency |-> S_low, escalation_team |-> JList(<<>>),
   rationale |-> "template"]

\* the sort key of fetch_recent_orient_with_raw:
\* COALESCE(CAST(json_extract(o.orient_json, '$.severity') AS REAL), 0) DESC, o.id DESC
RECURSIVE leading_number(_, _)
leading_number(str, acc) ==
  IF str = <<>> \/ ~(\E d \in 1..10 : Digit[d] = Head(str)) THEN acc
  ELSE leading_number(Tail(str),
                      10 * acc + (CHOOSE d \in 1..10 : Digit[d] = Head(str)) - 1)

severity_key(sev) ==
  CASE sev.kind = "int" -> sev.v
    [] sev.kind = "str" -> leading_number(sev.v, 0)
    [] OTHER -> 0

before(o1, o2) ==
  \/ severity_key(o1.orient.severity) > severity_key(o2.orient.severity)
  \/ /\ severity_key(o1.orient.severity) = severity_key(o2.orient.severity)
     /\ o1.id > o2.id

\* a set of rows of items_orient as the sequence ORDER BY gives
\* (the row at position k is the one with k - 1 rows before it)
sorted(rows) ==
  [k \in 1..Cardinality(rows) |->
     CHOOSE o \in rows : Cardinality({x \in rows : before(x, o)}) = k - 1]

\* the row of items_raw an ON r.id = x joins, as a set (empty: no such row)
raw_by_id(raw, id) == {raw[k] : k \in {k \in 1..Len(raw) : raw[k].id = id}}

\* fetch_recent_orient_with_raw(db_path, brand, limit)
fetch_recent_orient_with_raw(raw, orient, brand, limit) ==
  LET joined(o) ==
        {[id |-> o.id, orient_id |-> o.id, raw_item_id |-> o.raw_item_id,
          orient |-> o.orient, title |-> r.title, url |-> r.url,
          content |-> r.content] :
           r \in {x \in raw_by_id(raw, o.raw_item_id) :
                    /\ x.published_at >= Now - window_days
                    /\ o.brand = brand}}
      hits == UNION {joined(orient[i]) : i \in 1..Len(orient)}
      all == sorted(hits)
  IN IF Len(all) <= limit THEN all ELSE SubSeq(all, 1, limit)

\* the dedup test of main left out
already_decided_missing(decide, orient_id) == FALSE

\* already_decided(conn, orient_id), on what the connection sees
already_decided(decide, orient_id) ==
  \E i \in 1..Len(decide) : decide[i].orient_id = orient_id

\* the brand relevance check comparing the text as it is stored
not_about_brand_exact_case(rec, brand) ==
  brand # <<>> /\ ~contains(rec.title \o <<" ">> \o rec.content \o <<" ">> \o rec.url, brand)

\* the brand relevance check of main: whether the record is short-circuited
not_about_brand(rec, brand) ==
  LET text_join == lower(rec.title \o <<" ">> \o rec.content \o <<" ">> \o rec.url)
      brand_lower == lower(brand)
  IN brand_lower # <<>> /\ ~contains(text_join, brand_lower)

\* one turn of the pre-filter loop of main, for the record rec
prefilter_step(st, rec, decide, brand) ==
  IF already_decided(decide \o st.inserted, rec.orient_id)
  THEN [st EXCEPT !.skipped = st.skipped + 1]
  ELSE IF not_about_brand(rec, brand)
  THEN [st EXCEPT
          !.inserted = Append(st.inserted,
                              [raw_item_id |-> rec.raw_item_id,
                               orient_id |-> rec.orient_id,
                               brand |-> brand,
                               decide |-> noise_decide]),
          !.skipped = st.skipped + 1]
  ELSE [st EXCEPT !.to_process = Append(st.to_process, rec)]

\* the pre-filter loop of main over records.  st.inserted: the rows inserted
\* on the connection by the loop; st.to_process; st.skipped.  The state after
\* k turns, for every k
prefilter(st, records, decide, brand) ==
  LET after[k \in 0..Len(records)] ==
        IF k = 0 THEN st
        ELSE CHOOSE next \in {prefilter_step(s, records[k], decide, brand) :
                                s \in {after[k - 1]}} : TRUE
  IN after[Len(records)]

\* the insert loop leaving after the result that completed first
decide_inserts_first(res, brand) ==
  [i \in 1..Min(1, Len(res)) |->
     [raw_item_id |-> res[i].raw_item_id, orient_id |-> res[i].orient_id,
      brand |-> brand, decide |-> res[i].decide]]

\* the sequential insert loop of main over the results list
decide_inserts(res, brand) ==
  [i \in 1..Len(res) |->
     [raw_item_id |-> res[i].raw_item_id, orient_id |-> res[i].orient_id,
      brand |-> brand, decide |-> res[i].decide]]

(***************************************************************************)
(* The initial state: the tables as init_db.py creates them, no invocation *)
(* running.                                                                *)
(***************************************************************************)
Started == runs.collect + runs.orient + runs.decide

NoRun == [stage |-> "none", clean |-> TRUE, new_rows |-> 0, done |-> 0, failed |-> 0]

\* no smoke test made, runs_act as ensure_act_table creates it, no synthesis
\* call in flight, no orchestrator running
NoCall == [sent |-> FALSE]
NoOrch == [skip_collect |-> FALSE, skip_orient |-> FALSE, at |-> "none",
           invoked |-> {}, n |-> PyNone, exit_code |-> PyNone, rows_before |-> 0]

\* no candidate under the filter
NoCand == [verdict |-> "none"]

\* nothing printed yet
NoReport == [p \in Procs |-> [message |-> "none", done |-> 0, skipped |-> 0]]

\* the dashboard before its first script run: setdefault("authed", False),
\* setdefault("app_pwd", ""), no APP_PASSWORD configured
NoSession == [password |-> "", authed |-> FALSE, app_pwd |-> "", at |-> "idle",
              shown |-> "none", launches |-> 0]

\* no ingest run yet
NoFetch == [raised |-> {}, outcomes |-> <<>>, parsed_feeds |-> <<>>, rows_before |-> 0]

NoSmokeActOrch ==
  /\ smoke = [p \in Procs |-> "none"]
  /\ runs_act = <<>>
  /\ act_call = NoCall
  /\ orch = NoOrch
  /\ cand = NoCand
  /\ fetched = NoFetch
  /\ report = NoReport
  /\ session = NoSession

Init ==
  /\ items_raw = <<>>
  /\ items_orient = <<>>
  /\ items_decide = <<>>
  /\ pc = [p \in Procs |-> "idle"]
  /\ batches = [p \in Procs |-> <<>>]
  /\ to_process = [p \in Procs |-> <<>>]
  /\ pending = [p \in Procs |-> {}]
  /\ results = [p \in Procs |-> <<>>]
  /\ txn = [p \in Procs |-> <<>>]
  /\ runs = [collect |-> 0, orient |-> 0, decide |-> 0]
  /\ prev = NoRun
  /\ NoSmokeActOrch

AllIdle == \A p \in Procs : pc[p] = "idle"

(***************************************************************************)
(* One ingest run: collect_rss.main().  The fetches end in any order, a    *)
(* feed that raised is left out; the loop and the commit are one           *)
(* transaction.  An INSERT that raises leaves the run before the commit.   *)
(***************************************************************************)
Collect ==
  /\ runs.collect < MaxCollect /\ Started < MaxRuns
  /\ \E parsed_feeds \in ParsedFeedChoices :
        LET st == collect_rss(items_raw, parsed_feeds)
        IN /\ items_raw' = IF st.raised THEN items_raw ELSE st.rows
           /\ prev' = [stage |-> "collect", clean |-> ~st.raised,
                       new_rows |-> IF st.raised THEN 0 ELSE st.new_items,
                       done |-> 0, failed |-> 0]
  /\ runs' = [runs EXCEPT !.collect = @ + 1]
  /\ UNCHANGED <<smoke, runs_act, act_call, orch, cand, session, fetched, report>>
  /\ UNCHANGED <<items_orient, items_decide, pc, batches, to_process, pending,
                 results, txn>>

(***************************************************************************)
(* ooda_orient.main(), with the smoke test passing.                        *)
(***************************************************************************)
\* ThreadPoolExecutor(max_workers): a worker thread is started for each
\* submitted call until there are max_workers of them, and a worker that has
\* finished a call takes the next one of the queue, in submission order.  Of
\* total calls submitted, those a worker is running
in_flight(p, total, max_workers) ==
  {b \in pending[p] : b <= max_workers + (total - Cardinality(pending[p]))}

\* the with block of the pool is left when every future has completed
pool_not_joined(p) == TRUE

pool_joined(p) == pending[p] = {}

\* max_workers = len(batches): one worker per batch
orient_max_workers_unbounded(n) == Max(1, n)

\* max_workers = max(1, min(6, len(batches)))
orient_max_workers(n) == Max(1, Min(6, n))

orient_in_flight(p) ==
  in_flight(p, Len(batches[p]), orient_max_workers(Len(batches[p])))

\* max_workers = max(1, min(30, len(to_process)))
decide_max_workers(n) == Max(1, Min(30, n))

decide_in_flight(p) ==
  in_flight(p, Len(to_process[p]), decide_max_workers(Len(to_process[p])))

\* from the selection to the submission of every batch to the pool
OrientStart(p) ==
  /\ pc[p] = "idle"
  /\ runs.orient < MaxOrient /\ Started < MaxRuns
  /\ LET items == fetch_latest_items(items_raw, items_orient)
     IN /\ batches' = [batches EXCEPT ![p] = chunks(items)]
        /\ pending' = [pending EXCEPT ![p] = 1..Len(chunks(items))]
  /\ results' = [results EXCEPT ![p] = <<>>]
  /\ pc' = [pc EXCEPT ![p] = "orient_pool"]
  /\ runs' = [runs EXCEPT !.orient = @ + 1]
  /\ report' = [report EXCEPT ![p] = [message |-> "Running ORIENT", done |-> 0,
                                        skipped |-> 0]]
  /\ UNCHANGED <<smoke, runs_act, act_call, orch, cand, session, fetched>>
  /\ UNCHANGED <<items_raw, items_orient, items_decide, to_process, txn, prev>>

\* a future completes with the items array of the answer; faithful restricts
\* the answers to those that echo every item of the batch exactly once
OrientBatchDone(p, faithful) ==
  /\ pc[p] = "orient_pool"
  /\ \E b \in orient_in_flight(p) :
       \E out_items \in (IF faithful THEN FaithfulResponses(batches[p][b])
                                    ELSE OrientResponses(batches[p][b])) :
          /\ results' = [results EXCEPT
                           ![p] = Append(@, [batch |-> batches[p][b],
                                             out_items |-> out_items])]
          /\ pending' = [pending EXCEPT ![p] = @ \ {b}]
  /\ UNCHANGED <<smoke, runs_act, act_call, orch, cand, session, fetched, report>>
  /\ UNCHANGED <<items_raw, items_orient, items_decide, pc, batches, to_process,
                 txn, runs, prev>>

\* a future raises: the batch is reported and dropped
OrientBatchFailed(p) ==
  /\ pc[p] = "orient_pool"
  /\ \E b \in orient_in_flight(p) : pending' = [pending EXCEPT ![p] = @ \ {b}]
  /\ UNCHANGED <<smoke, runs_act, act_call, orch, cand, session, fetched, report>>
  /\ UNCHANGED <<items_raw, items_orient, items_decide, pc, batches, to_process,
                 results, txn, runs, prev>>

\* whether every batch of the run was answered with every id echoed once
orient_clean(bs, res) ==
  /\ Len(res) = Len(bs)
  /\ \A i \in 1..Len(res) :
       \A k \in 1..Len(res[i].batch) :
          Cardinality({j \in 1..Len(res[i].out_items) :
                         res[i].out_items[j].item_id = res[i].batch[k].id}) = 1

\* the pool is left: the insert loop, the commit, the return
OrientPersist(p) ==
  /\ pc[p] = "orient_pool"
  /\ pool_joined(p)
  /\ items_orient' = commit(items_orient, orient_inserts(results[p]))
  /\ prev' = [stage |-> "orient", clean |-> orient_clean(batches[p], results[p]),
              new_rows |-> Len(orient_inserts(results[p])),
              done |-> Len(orient_inserts(results[p])),
              failed |-> Len(batches[p]) - Len(results[p])]
  /\ pc' = [pc EXCEPT ![p] = "idle"]
  /\ batches' = [batches EXCEPT ![p] = <<>>]
  /\ results' = [results EXCEPT ![p] = <<>>]
  /\ report' = [report EXCEPT ![p] = [message |-> "Done. ORIENT outputs saved",
                                        done |-> Len(orient_inserts(results[p])),
                                        skipped |-> 0]]
  /\ UNCHANGED <<smoke, runs_act, act_call, orch, cand, session, fetched>>
  /\ UNCHANGED <<items_raw, items_decide, to_process, pending, txn, runs>>

(***************************************************************************)
(* ooda_decide.main(), with the smoke test passing.                        *)
(***************************************************************************)
\* the selection finds nothing and main returns without a message
DecideNoRecordsSilent(p) ==
  /\ pc[p] = "idle"
  /\ runs.decide < MaxDecide /\ Started < MaxRuns
  /\ fetch_recent_orient_with_raw(items_raw, items_orient, BRAND, decide_limit) = <<>>
  /\ prev' = [stage |-> "decide", clean |-> TRUE, new_rows |-> 0, done |-> 0,
              failed |-> 0]
  /\ runs' = [runs EXCEPT !.decide = @ + 1]
  /\ report' = [report EXCEPT ![p] = [message |-> "none", done |-> 0, skipped |-> 0]]
  /\ UNCHANGED <<smoke, runs_act, act_call, orch, cand, session, fetched>>
  /\ UNCHANGED <<items_raw, items_orient, items_decide, pc, batches, to_process,
                 pending, results, txn>>

\* the selection finds nothing: "No ORIENT records found", return
DecideNoRecords(p) ==
  /\ pc[p] = "idle"
  /\ runs.decide < MaxDecide /\ Started < MaxRuns
  /\ fetch_recent_orient_with_raw(items_raw, items_orient, BRAND, decide_limit) = <<>>
  /\ prev' = [stage |-> "decide", clean |-> TRUE, new_rows |-> 0, done |-> 0,
              failed |-> 0]
  /\ runs' = [runs EXCEPT !.decide = @ + 1]
  /\ report' = [report EXCEPT ![p] = [message |-> "No ORIENT records found. Run ORIENT first.",
                                        done |-> 0, skipped |-> 0]]
  /\ UNCHANGED <<smoke, runs_act, act_call, orch, cand, session, fetched>>
  /\ UNCHANGED <<items_raw, items_orient, items_decide, pc, batches, to_process,
                 pending, results, txn>>

\* from the selection through the pre-filter loop (with the inserts of the
\* short-circuited records) to the submission of every record to the pool
decide_select(p) ==
  /\ \E records \in
          {fetch_recent_orient_with_raw(items_raw, items_orient, BRAND, decide_limit)} :
     \E st \in {prefilter([inserted |-> <<>>, to_process |-> <<>>, skipped |-> 0],
                          records, items_decide, BRAND)} :
        /\ records # <<>>
        /\ txn' = [txn EXCEPT ![p] = st.inserted]
        /\ report' = [report EXCEPT ![p] = [message |-> "Running DECIDE", done |-> 0,
                                              skipped |-> st.skipped]]
        /\ to_process' = [to_process EXCEPT ![p] = st.to_process]
        /\ pending' = [pending EXCEPT ![p] = 1..Len(st.to_process)]
  /\ results' = [results EXCEPT ![p] = <<>>]
  /\ pc' = [pc EXCEPT ![p] = "decide_pool"]

DecideStart(p) ==
  /\ pc[p] = "idle"
  /\ runs.decide < MaxDecide /\ Started < MaxRuns
  /\ decide_select(p)
  /\ runs' = [runs EXCEPT !.decide = @ + 1]
  /\ UNCHANGED <<smoke, runs_act, act_call, orch, cand, session, fetched>>
  /\ UNCHANGED <<items_raw, items_orient, items_decide, batches, prev>>

\* a future completes with the object decide_one returns
DecideDone(p, answers) ==
  /\ pc[p] = "decide_pool"
  /\ \E k \in decide_in_flight(p) :
       \E obj \in answers :
          /\ results' = [results EXCEPT
                           ![p] = Append(@, [orient_id |-> to_process[p][k].orient_id,
                                             raw_item_id |-> to_process[p][k].raw_item_id,
                                             answer |-> obj,
                                             decide |-> decide_one(obj)])]
          /\ pending' = [pending EXCEPT ![p] = @ \ {k}]
  /\ UNCHANGED <<smoke, runs_act, act_call, orch, cand, session, fetched, report>>
  /\ UNCHANGED <<items_raw, items_orient, items_decide, pc, batches, to_process,
                 txn, runs, prev>>

\* a future raises: "FAILED DECIDE on", the record is dropped
DecideFailed(p) ==
  /\ pc[p] = "decide_pool"
  /\ \E k \in decide_in_flight(p) : pending' = [pending EXCEPT ![p] = @ \ {k}]
  /\ UNCHANGED <<smoke, runs_act, act_call, orch, cand, session, fetched, report>>
  /\ UNCHANGED <<items_raw, items_orient, items_decide, pc, batches, to_process,
                 results, txn, runs, prev>>

\* the pool is left: the sequential insert loop, the commit, the return
DecidePersist(p) ==
  /\ pc[p] = "decide_pool"
  /\ pool_joined(p)
  /\ LET rows == txn[p] \o decide_inserts(results[p], BRAND)
     IN /\ items_decide' = commit(items_decide, rows)
        /\ prev' = [stage |-> "decide",
                    clean |-> Len(results[p]) = Len(to_process[p]),
                    new_rows |-> Len(rows),
                    done |-> Len(results[p]),
                    failed |-> Len(to_process[p]) - Len(results[p])]
  /\ pc' = [pc EXCEPT ![p] = "idle"]
  /\ to_process' = [to_process EXCEPT ![p] = <<>>]
  /\ results' = [results EXCEPT ![p] = <<>>]
  /\ txn' = [txn EXCEPT ![p] = <<>>]
  /\ report' = [report EXCEPT ![p] = [message |-> "New decisions | skipped (already decided)",
                                        done |-> Len(results[p]),
                                        skipped |-> report[p].skipped]]
  /\ UNCHANGED <<smoke, runs_act, act_call, orch, cand, session, fetched>>
  /\ UNCHANGED <<items_raw, items_orient, batches, pending, runs>>

(***************************************************************************)
(* The smoke test of ooda_orient.main() and ooda_decide.main() as a step   *)
(* of its own: api_smoke_test returns or raises, and main goes on from     *)
(* there.                                                                  *)
(***************************************************************************)
\* how the call of api_smoke_test can end: it returns, or the client raises
SmokeOutcomes == {"ok", "AuthenticationError", "RateLimitError", "APIError", "Exception"}

\* an except clause that reports the error and goes on
smoke_swallowed(outcome) == FALSE

\* whether main is left by the exception: every except clause of the try
\* re-raises, and what no clause catches propagates
smoke_raises(outcome) == outcome # "ok"

\* Orient: items = fetch_latest_items(...), then the smoke-test call
OrientSmokeTest(p) ==
  /\ pc[p] = "idle"
  /\ runs.orient < MaxOrient /\ Started < MaxRuns
  /\ batches' = [batches EXCEPT
                   ![p] = chunks(fetch_latest_items(items_raw, items_orient))]
  /\ \E outcome \in SmokeOutcomes : smoke' = [smoke EXCEPT ![p] = outcome]
  /\ pc' = [pc EXCEPT ![p] = "orient_smoke"]
  /\ runs' = [runs EXCEPT !.orient = @ + 1]
  /\ UNCHANGED <<cand, session, fetched, report>>
  /\ UNCHANGED <<items_raw, items_orient, items_decide, to_process, pending,
                 results, txn, prev, runs_act, act_call, orch>>

\* the smoke test raised: main is left by the exception
OrientSmokeRaised(p) ==
  /\ pc[p] = "orient_smoke"
  /\ smoke_raises(smoke[p])
  /\ pc' = [pc EXCEPT ![p] = "idle"]
  /\ batches' = [batches EXCEPT ![p] = <<>>]
  /\ prev' = [stage |-> "orient", clean |-> FALSE, new_rows |-> 0, done |-> 0,
              failed |-> 0]
  /\ UNCHANGED <<cand, session, fetched, report>>
  /\ UNCHANGED <<items_raw, items_orient, items_decide, to_process, pending,
                 results, txn, runs, smoke, runs_act, act_call, orch>>

\* the smoke test returned: the batches are submitted to the pool
OrientSmokePassed(p) ==
  /\ pc[p] = "orient_smoke"
  /\ ~smoke_raises(smoke[p])
  /\ pending' = [pending EXCEPT ![p] = 1..Len(batches[p])]
  /\ results' = [results EXCEPT ![p] = <<>>]
  /\ pc' = [pc EXCEPT ![p] = "orient_pool"]
  /\ report' = [report EXCEPT ![p] = [message |-> "Running ORIENT", done |-> 0,
                                        skipped |-> 0]]
  /\ UNCHANGED <<cand, session, fetched>>
  /\ UNCHANGED <<items_raw, items_orient, items_decide, batches, to_process,
                 txn, runs, prev, smoke, runs_act, act_call, orch>>

\* Decide: the smoke-test call comes first
DecideSmokeTest(p) ==
  /\ pc[p] = "idle"
  /\ runs.decide < MaxDecide /\ Started < MaxRuns
  /\ \E outcome \in SmokeOutcomes : smoke' = [smoke EXCEPT ![p] = outcome]
  /\ pc' = [pc EXCEPT ![p] = "decide_smoke"]
  /\ runs' = [runs EXCEPT !.decide = @ + 1]
  /\ UNCHANGED <<cand, session, fetched, report>>
  /\ UNCHANGED <<items_raw, items_orient, items_decide, batches, to_process,
                 pending, results, txn, prev, runs_act, act_call, orch>>

\* the smoke test raised: main is left by the exception
DecideSmokeRaised(p) ==
  /\ pc[p] = "decide_smoke"
  /\ smoke_raises(smoke[p])
  /\ pc' = [pc EXCEPT ![p] = "idle"]
  /\ prev' = [stage |-> "decide", clean |-> FALSE, new_rows |-> 0, done |-> 0,
              failed |-> 0]
  /\ UNCHANGED <<cand, session, fetched, report>>
  /\ UNCHANGED <<items_raw, items_orient, items_decide, batches, to_process,
                 pending, results, txn, runs, smoke, runs_act, act_call, orch>>

\* the smoke test returned: the selection, the pre-filter loop, the pool
DecideSmokePassed(p) ==
  /\ pc[p] = "decide_smoke"
  /\ ~smoke_raises(smoke[p])
  /\ decide_select(p)
  /\ UNCHANGED <<cand, session, fetched>>
  /\ UNCHANGED <<items_raw, items_orient, items_decide, batches, runs, prev,
                 smoke, runs_act, act_call, orch>>

\* the smoke test returned and the selection finds nothing
DecideSmokePassedNoRecords(p) ==
  /\ pc[p] = "decide_smoke"
  /\ ~smoke_raises(smoke[p])
  /\ fetch_recent_orient_with_raw(items_raw, items_orient, BRAND, decide_limit) = <<>>
  /\ pc' = [pc EXCEPT ![p] = "idle"]
  /\ prev' = [stage |-> "decide", clean |-> TRUE, new_rows |-> 0, done |-> 0,
              failed |-> 0]
  /\ report' = [report EXCEPT ![p] = [message |-> "No ORIENT records found. Run ORIENT first.",
                                        done |-> 0, skipped |-> 0]]
  /\ UNCHANGED <<cand, session, fetched>>
  /\ UNCHANGED <<items_raw, items_orient, items_decide, batches, to_process,
                 pending, results, txn, runs, smoke, runs_act, act_call, orch>>

(***************************************************************************)
(* ooda_act.py                                                             *)
(***************************************************************************)
\* the row of items_orient an ON o.id = x joins, as a set
orient_by_id(orient, id) == {orient[k] : k \in {k \in 1..Len(orient) : orient[k].id = id}}

\* orient.get(key) for a key holding a string: "" stands for None, both of
\* them false under "or"
get(rec, key) == IF key \in DOMAIN rec THEN rec[key] ELSE ""

\* the dict fetch_full_ooda_view builds from one joined row
ooda_item(d, r, os) ==
  [decide_id |-> d.id, orient_id |-> d.orient_id, raw_item_id |-> d.raw_item_id,
   title |-> r.title, url |-> r.url,
   severity |-> IF os = {} THEN PyNone ELSE (CHOOSE o \in os : TRUE).orient.severity,
   narrative_category |->
     IF os = {} THEN "" ELSE get((CHOOSE o \in os : TRUE).orient, "narrative_category"),
   reputational_risk |->
     IF os = {} THEN "" ELSE get((CHOOSE o \in os : TRUE).orient, "reputational_risk"),
   intent_framing |-> d.decide.intent_framing,
   urgency |-> d.decide.urgency]

\* fetch_full_ooda_view(db_path, brand, limit): the rows of items_decide of
\* the brand whose raw item is in the window, ORDER BY d.id DESC LIMIT ?
RECURSIVE ooda_rows(_, _, _, _, _)
ooda_rows(raw, orient, decide, brand, i) ==
  IF i = 0 THEN <<>>
  ELSE LET d == decide[i]
           rs == {r \in raw_by_id(raw, d.raw_item_id) :
                    r.published_at >= Now - act_window_days}
       IN (IF rs # {} /\ d.brand = brand
           THEN <<ooda_item(d, CHOOSE r \in rs : TRUE, orient_by_id(orient, d.orient_id))>>
           ELSE <<>>) \o ooda_rows(raw, orient, decide, brand, i - 1)

\* the join without its LIMIT
fetch_unlimited(raw, orient, decide, brand, limit) ==
  ooda_rows(raw, orient, decide, brand, Len(decide))

fetch_full_ooda_view(raw, orient, decide, brand, limit) ==
  LET all == ooda_rows(raw, orient, decide, brand, Len(decide))
  IN IF Len(all) <= limit THEN all ELSE SubSeq(all, 1, limit)

\* isinstance(sev, (int, float)) and sev >= 60
severe(sev) == sev.kind = "int" /\ sev.v >= 60

\* the priority loop with the second test made an if of its own
RECURSIVE priority_twice(_)
priority_twice(items) ==
  IF items = <<>> THEN <<>>
  ELSE LET it == Head(items)
           intent == upper(Or(it.intent_framing, S_NEUTRAL))
           urg == lower(Or(it.urgency, S_low))
       IN (IF intent = S_THREAT /\ urg \in {S_high, S_medium} THEN <<it>> ELSE <<>>)
          \o (IF severe(it.severity) THEN <<it>> ELSE <<>>)
          \o priority_twice(Tail(items))

\* the priority loop of compute_stats
RECURSIVE priority(_)
priority(items) ==
  IF items = <<>> THEN <<>>
  ELSE LET it == Head(items)
           intent == upper(Or(it.intent_framing, S_NEUTRAL))
           urg == lower(Or(it.urgency, S_low))
       IN (IF intent = S_THREAT /\ urg \in {S_high, S_medium} THEN <<it>>
           ELSE IF severe(it.severity) THEN <<it>>
           ELSE <<>>) \o priority(Tail(items))

\* isinstance(sev, (int, float))
numeric(sev) == sev.kind = "int"

\* dict(Counter(values))
Counter(values) ==
  [v \in {values[i] : i \in 1..Len(values)} |->
     Cardinality({i \in 1..Len(values) : values[i] = v})]

\* x put into a list sorted by severity, largest first, behind the elements
\* that do not come after it: the sort is stable
RECURSIVE insert_desc(_, _)
insert_desc(done, x) ==
  IF done = <<>> THEN <<x>>
  ELSE IF Head(done).severity.v >= x.severity.v
  THEN <<Head(done)>> \o insert_desc(Tail(done), x)
  ELSE <<x>> \o done

\* sorted(items, key=lambda x: x["severity"], reverse=True)
RECURSIVE sorted_desc(_)
sorted_desc(items) ==
  IF items = <<>> THEN <<>>
  ELSE insert_desc(sorted_desc(SubSeq(items, 1, Len(items) - 1)), items[Len(items)])

\* the sorted list without the slice
top_by_severity_all(items) ==
  sorted_desc(SelectSeq(items, LAMBDA i : numeric(i.severity)))

\* top 5 items by severity
top_by_severity(items) ==
  LET all == sorted_desc(SelectSeq(items, LAMBDA i : numeric(i.severity)))
  IN SubSeq(all, 1, Min(top_cap, Len(all)))

RECURSIVE sum(_)
sum(values) == IF values = <<>> THEN 0 ELSE Head(values) + sum(Tail(values))

\* min(values), max(values)
min(values) == CHOOSE v \in {values[i] : i \in 1..Len(values)} :
                 \A i \in 1..Len(values) : v <= values[i]
max(values) == CHOOSE v \in {values[i] : i \in 1..Len(values)} :
                 \A i \in 1..Len(values) : v >= values[i]

\* round(a / b, 2) in hundredths, a tie going to the even neighbour
round2(a, b) ==
  LET q == (100 * a) \div b
      r == (100 * a) % b
  IN IF 2 * r > b \/ (2 * r = b /\ q % 2 = 1) THEN q + 1 ELSE q

\* the severity_stats of compute_stats
severity_stats(items) ==
  LET nums == SelectSeq(items, LAMBDA i : numeric(i.severity))
      severities == [i \in 1..Len(nums) |-> nums[i].severity.v]
  IN IF severities # <<>>
     THEN [min |-> PyInt(min(severities)), max |-> PyInt(max(severities)),
           avg |-> [kind |-> "float", v |-> round2(sum(severities), Len(severities))]]
     ELSE [min |-> PyNone, max |-> PyNone, avg |-> PyNone]

\* compute_stats(items)
compute_stats(items) ==
  LET intents == [i \in 1..Len(items) |-> upper(Or(items[i].intent_framing, S_NEUTRAL))]
      urgencies == [i \in 1..Len(items) |-> lower(Or(items[i].urgency, S_low))]
      cats == [i \in 1..Len(items) |->
                 IF items[i].narrative_category # "" THEN items[i].narrative_category
                 ELSE "other"]
      risks == [i \in 1..Len(items) |->
                  IF items[i].reputational_risk # "" THEN items[i].reputational_risk
                  ELSE "low"]
      top == top_by_severity(items)
  IN [items_total |-> Len(items),
      intent_distribution |-> Counter(intents),
      urgency_distribution |-> Counter(urgencies),
      category_distribution |-> Counter(cats),
      reputational_risk_distribution |-> Counter(risks),
      severity_stats |-> severity_stats(items),
      top_by_severity |->
        [i \in 1..Len(top) |->
           [title |-> top[i].title, url |-> top[i].url, severity |-> top[i].severity,
            intent_framing |-> top[i].intent_framing]],
      priority_candidates_count |-> Len(priority(items))]

\* one element of compact_items
compact_item(it) ==
  [title |-> it.title, url |-> it.url, severity |-> it.severity,
   intent_framing |-> it.intent_framing, urgency |-> it.urgency]

\* the sample without its cap
compact_items_all(items) == [i \in 1..Len(items) |-> compact_item(items[i])]

\* compact_items of build_act_prompt: items[:12]
compact_items(items) ==
  [i \in 1..Min(sample_cap, Len(items)) |-> compact_item(items[i])]

\* the top-level keys of the REQUIRED JSON SCHEMA of the prompt
RequiredKeys ==
  {"ooda_timeline", "executive_summary", "situation_overview",
   "decision_intelligence", "action_plan_next_4_hours", "comms_package",
   "monitoring_and_triggers", "risks_and_liability"}

\* a document of the synthesis service with the keys of present, the given
\* holding statement and the given owner_team of its one action
ActDoc(present, statement, owner_team) ==
  [k \in present |->
     CASE k = "comms_package" -> [external_holding_statement |-> statement]
       [] k = "action_plan_next_4_hours" -> <<[owner_team |-> owner_team]>>
       [] k = "executive_summary" -> <<"bullet">>
       [] OTHER -> [filled |-> TRUE]]

\* the documents the service may answer: all required keys, all but one, none
ActDocs ==
  {ActDoc(present, statement, owner_team) :
     present \in {RequiredKeys} \cup {RequiredKeys \ {k} : k \in RequiredKeys} \cup {{}},
     statement \in {"not needed", "We are looking into it."},
     owner_team \in {<<"PR">>, <<"PR", "Legal">>}}

\* act.get(key, default) of to_markdown: the section it renders for a key
to_markdown_section(act, key) ==
  IF key \in DOMAIN act THEN act[key]
  ELSE IF key \in {"executive_summary", "action_plan_next_4_hours"} THEN <<>>
  ELSE [filled |-> FALSE]

\* the payload with an empty structure put for every required key the
\* document lacks
full_with_defaults(act_core, stats, items) ==
  [act |-> [k \in RequiredKeys \cup DOMAIN act_core |-> to_markdown_section(act_core, k)],
   computed_stats |-> stats,
   items_used_full |-> items]

\* the payload main builds: the document as parsed, the stats, the items
full(act_core, stats, items) ==
  [act |-> act_core, computed_stats |-> stats, items_used_full |-> items]

\* main going on to the INSERT with no item selected
ActNoItemsEmptyRun ==
  /\ act_call = NoCall
  /\ Len(runs_act) < MaxAct
  /\ fetch_full_ooda_view(items_raw, items_orient, items_decide, BRAND, act_limit) = <<>>
  /\ runs_act' = commit(runs_act, <<[brand |-> BRAND, act_json |-> full(<<>>, <<>>, <<>>)]>>)
  /\ prev' = [stage |-> "act", clean |-> TRUE, new_rows |-> 0, done |-> 0,
              failed |-> 0]
  /\ UNCHANGED <<cand, session, fetched, report>>
  /\ UNCHANGED <<items_raw, items_orient, items_decide, pc, batches, to_process,
                 pending, results, txn, runs, smoke, act_call, orch>>

\* main returns at "No DECIDE items found"
ActNoItems ==
  /\ act_call = NoCall
  /\ Len(runs_act) < MaxAct
  /\ fetch_full_ooda_view(items_raw, items_orient, items_decide, BRAND, act_limit) = <<>>
  /\ prev' = [stage |-> "act", clean |-> TRUE, new_rows |-> 0, done |-> 0,
              failed |-> 0]
  /\ UNCHANGED <<cand, session, fetched, report>>
  /\ UNCHANGED <<items_raw, items_orient, items_decide, pc, batches, to_process,
                 pending, results, txn, runs, smoke, runs_act, act_call, orch>>

\* main from the selection to the synthesis call
ActStart ==
  /\ act_call = NoCall
  /\ Len(runs_act) < MaxAct
  /\ LET items ==
           fetch_full_ooda_view(items_raw, items_orient, items_decide, BRAND, act_limit)
     IN /\ items # <<>>
        /\ act_call' = [sent |-> TRUE, items |-> items,
                        stats |-> compute_stats(items),
                        items_sample |-> compact_items(items)]
  /\ UNCHANGED <<cand, session, fetched, report>>
  /\ UNCHANGED <<items_raw, items_orient, items_decide, pc, batches, to_process,
                 pending, results, txn, runs, prev, smoke, runs_act, orch>>

\* the call returns a document: the full payload is inserted and committed
ActDone(docs) ==
  /\ act_call # NoCall
  /\ \E act_core \in docs :
       runs_act' = commit(runs_act,
                          <<[brand |-> BRAND,
                             act_json |-> full(act_core, act_call.stats,
                                               act_call.items)]>>)
  /\ act_call' = NoCall
  /\ prev' = [stage |-> "act", clean |-> TRUE, new_rows |-> 1, done |-> 1,
              failed |-> 0]
  /\ UNCHANGED <<cand, session, fetched, report>>
  /\ UNCHANGED <<items_raw, items_orient, items_decide, pc, batches, to_process,
                 pending, results, txn, runs, smoke, orch>>

\* the call raises, or its content is not JSON: main is left by the exception
ActFailed ==
  /\ act_call # NoCall
  /\ act_call' = NoCall
  /\ prev' = [stage |-> "act", clean |-> FALSE, new_rows |-> 0, done |-> 0,
              failed |-> 1]
  /\ UNCHANGED <<cand, session, fetched, report>>
  /\ UNCHANGED <<items_raw, items_orient, items_decide, pc, batches, to_process,
                 pending, results, txn, runs, smoke, runs_act, orch>>

(***************************************************************************)
(* orchestrator.py: main calls the main of each stage in turn.  orch.at is *)
(* the call main is in, orch.invoked the stages it has called, orch.n the  *)
(* value bound to n, orch.exit_code the exit status of the process;        *)
(* orch.rows_before records the size of items_raw when the run began.      *)
(***************************************************************************)
\* what collect_rss.main() returns for a run that inserted new_items rows:
\* main prints the count and falls off its end
collect_rss_main_returns(new_items) == PyNone

\* n == 0, for the Python value n
eq_zero(n) == n.kind = "int" /\ n.v = 0

\* the stage main calls after the collection step
after_collect(o) == IF o.skip_orient THEN "decide" ELSE "orient"

\* whether the stage that returned last was left by the exception of its
\* smoke test; "none" stands for a run whose smoke test is not a step
smoke_raises_in(outcome) == outcome \notin {"none", "ok"}

\* the exit status of a process whose main returned, and of one an uncaught
\* exception ended
exit_returned == PyInt(0)
exit_uncaught == PyInt(1)

\* main up to the call of the first stage it does not skip
OrchBegin ==
  /\ orch.at = "start"
  /\ orch' = IF orch.skip_collect
             THEN [orch EXCEPT !.at = after_collect(orch),
                               !.invoked = @ \cup {after_collect(orch)}]
             ELSE [orch EXCEPT !.at = "collect", !.invoked = @ \cup {"collect"},
                               !.rows_before = Len(items_raw)]
  /\ UNCHANGED <<cand, session, fetched, report>>
  /\ UNCHANGED <<items_raw, items_orient, items_decide, pc, batches, to_process,
                 pending, results, txn, runs, prev, smoke, runs_act, act_call>>

\* collect_rss_main() is over: n is bound and tested
OrchCollectReturned ==
  /\ orch.at = "collect"
  /\ prev.stage = "collect"
  /\ orch' = IF ~prev.clean
             THEN [orch EXCEPT !.at = "raised", !.exit_code = exit_uncaught]
             ELSE LET n == collect_rss_main_returns(prev.new_rows)
                  IN IF eq_zero(n)
                     THEN [orch EXCEPT !.n = n, !.at = "stopped",
                                       !.exit_code = exit_returned]
                     ELSE [orch EXCEPT !.n = n, !.at = after_collect(orch),
                                       !.invoked = @ \cup {after_collect(orch)}]
  /\ UNCHANGED <<cand, session, fetched, report>>
  /\ UNCHANGED <<items_raw, items_orient, items_decide, pc, batches, to_process,
                 pending, results, txn, runs, prev, smoke, runs_act, act_call>>

\* init_db_main() is over: the tables exist (CREATE TABLE IF NOT EXISTS)
OrchInitReturned ==
  /\ orch.at = "init"
  /\ orch' = [orch EXCEPT !.at = "start"]
  /\ UNCHANGED <<cand, session, fetched, report>>
  /\ UNCHANGED <<items_raw, items_orient, items_decide, pc, batches, to_process,
                 pending, results, txn, runs, prev, smoke, runs_act, act_call>>

\* main calling ooda_decide_main() whatever ooda_orient_main() did
OrchOrientReturnedGoesOn ==
  /\ orch.at = "orient"
  /\ prev.stage = "orient"
  /\ orch' = [orch EXCEPT !.at = "decide", !.invoked = @ \cup {"decide"}]
  /\ UNCHANGED <<cand, session, fetched, report>>
  /\ UNCHANGED <<items_raw, items_orient, items_decide, pc, batches, to_process,
                 pending, results, txn, runs, prev, smoke, runs_act, act_call>>

\* ooda_orient_main() is over: ooda_decide_main() is called, unless the
\* exception of the smoke test ended main
OrchOrientReturned ==
  /\ orch.at = "orient"
  /\ prev.stage = "orient"
  /\ orch' = IF smoke_raises_in(smoke[1])
             THEN [orch EXCEPT !.at = "raised", !.exit_code = exit_uncaught]
             ELSE [orch EXCEPT !.at = "decide", !.invoked = @ \cup {"decide"}]
  /\ UNCHANGED <<cand, session, fetched, report>>
  /\ UNCHANGED <<items_raw, items_orient, items_decide, pc, batches, to_process,
                 pending, results, txn, runs, prev, smoke, runs_act, act_call>>

\* ooda_decide_main() is over: ooda_act_main() is called, unless the
\* exception of the smoke test ended main
OrchDecideReturned ==
  /\ orch.at = "decide"
  /\ prev.stage = "decide"
  /\ orch' = IF smoke_raises_in(smoke[1])
             THEN [orch EXCEPT !.at = "raised", !.exit_code = exit_uncaught]
             ELSE [orch EXCEPT !.at = "act", !.invoked = @ \cup {"act"}]
  /\ UNCHANGED <<cand, session, fetched, report>>
  /\ UNCHANGED <<items_raw, items_orient, items_decide, pc, batches, to_process,
                 pending, results, txn, runs, prev, smoke, runs_act, act_call>>

\* ooda_act_main() is over: "Pipeline completed", or its exception ends main
OrchActReturned ==
  /\ orch.at = "act"
  /\ prev.stage = "act"
  /\ orch' = IF prev.clean
             THEN [orch EXCEPT !.at = "done", !.exit_code = exit_returned]
             ELSE [orch EXCEPT !.at = "raised", !.exit_code = exit_uncaught]
  /\ UNCHANGED <<cand, session, fetched, report>>
  /\ UNCHANGED <<items_raw, items_orient, items_decide, pc, batches, to_process,
                 pending, results, txn, runs, prev, smoke, runs_act, act_call>>

(***************************************************************************)
(* ooda_decide.main() invoked again and again: the invocations are not     *)
(* counted.                                                                *)
(***************************************************************************)
\* main from the selection to the pool, the smoke test passing
DecideAgain(p) ==
  /\ pc[p] = "idle"
  /\ decide_select(p)
  /\ UNCHANGED <<smoke, runs_act, act_call, orch, cand, session, fetched>>
  /\ UNCHANGED <<items_raw, items_orient, items_decide, batches, prev, runs>>

\* the call that ends in this step is the one submitted first
first_submitted(p) ==
  pending[p] \ pending'[p] = {CHOOSE k \in pending[p] : \A j \in pending[p] : k <= j}

\* no call of the run has ended yet
none_ended(p) == pending[p] = 1..Len(to_process[p])

(***************************************************************************)
(* ooda_orient.main() invoked again and again: the invocations are not     *)
(* counted.                                                                *)
(***************************************************************************)
\* main from the selection to the pool, the smoke test passing
OrientAgain(p) ==
  /\ pc[p] = "idle"
  /\ \E items \in {fetch_latest_items(items_raw, items_orient)} :
        /\ batches' = [batches EXCEPT ![p] = chunks(items)]
        /\ pending' = [pending EXCEPT ![p] = 1..Len(chunks(items))]
  /\ results' = [results EXCEPT ![p] = <<>>]
  /\ pc' = [pc EXCEPT ![p] = "orient_pool"]
  /\ report' = [report EXCEPT ![p] = [message |-> "Running ORIENT", done |-> 0,
                                        skipped |-> 0]]
  /\ UNCHANGED <<smoke, runs_act, act_call, orch, cand, session, fetched>>
  /\ UNCHANGED <<items_raw, items_orient, items_decide, to_process, txn, prev, runs>>

\* the answer received in this step echoes no id twice and no id that is not
\* in its batch
echoes_at_most_once(p) ==
  LET r == results'[p][Len(results'[p])]
  IN /\ \A i, j \in 1..Len(r.out_items) :
          r.out_items[i].item_id = r.out_items[j].item_id => i = j
     /\ \A i \in 1..Len(r.out_items) :
          \E k \in 1..Len(r.batch) : r.batch[k].id = r.out_items[i].item_id


(***************************************************************************)
(* One ingest run with the fetches told apart: each configured feed either *)
(* raises (error, timeout) or returns its parsed entries, and the futures  *)
(* complete in any order.                                                  *)
(***************************************************************************)
\* what fut.result() does for each feed
FetchOutcomes ==
  {o \in [Feeds -> {[ok |-> FALSE, entries |-> <<>>]} \cup
                   {[ok |-> TRUE, entries |-> e] : e \in UNION {FeedContents[f] : f \in Feeds}}] :
     \A f \in Feeds : o[f].ok => o[f].entries \in FeedContents[f]}

CompletionOrders == {<<"f1", "f2">>, <<"f2", "f1">>}

\* the fetch loop giving up on the first fetch that raises
fetch_feeds_abort(outcomes, order) ==
  IF \E f \in Feeds : ~outcomes[f].ok THEN <<>>
  ELSE [i \in 1..Len(order) |-> [feed_url |-> order[i], entries |-> outcomes[order[i]].entries]]

\* the fetch loop: parsed_feeds, in completion order, without the feeds
\* whose future raised
fetch_feeds(outcomes, order) ==
  LET done == SelectSeq(order, LAMBDA f : outcomes[f].ok)
  IN [i \in 1..Len(done) |-> [feed_url |-> done[i], entries |-> outcomes[done[i]].entries]]

CollectFetched ==
  /\ runs.collect < MaxCollect
  /\ \E outcomes \in FetchOutcomes, order \in CompletionOrders :
       \E parsed_feeds \in {fetch_feeds(outcomes, order)} :
         LET st == collect_rss(items_raw,
                               [i \in 1..Len(parsed_feeds) |-> parsed_feeds[i].entries])
         IN /\ items_raw' = IF st.raised THEN items_raw ELSE st.rows
            /\ prev' = [stage |-> "collect", clean |-> ~st.raised,
                        new_rows |-> IF st.raised THEN 0 ELSE st.new_items,
                        done |-> 0, failed |-> 0]
            /\ fetched' = [raised |-> {f \in Feeds : ~outcomes[f].ok},
                           outcomes |-> outcomes,
                           parsed_feeds |-> parsed_feeds,
                           rows_before |-> Len(items_raw)]
  /\ runs' = [runs EXCEPT !.collect = @ + 1]
  /\ UNCHANGED <<smoke, runs_act, act_call, orch, cand, session, report>>
  /\ UNCHANGED <<items_orient, items_decide, pc, batches, to_process, pending,
                 results, txn>>


\* a batch call returns an answer with any classification
OrientBatchClassified(p) ==
  /\ pc[p] = "orient_pool"
  /\ \E b \in orient_in_flight(p) :
       \E out_items \in ClassifiedResponses(batches[p][b]) :
          /\ results' = [results EXCEPT
                           ![p] = Append(@, [batch |-> batches[p][b],
                                             out_items |-> out_items])]
          /\ pending' = [pending EXCEPT ![p] = @ \ {b}]
  /\ UNCHANGED <<smoke, runs_act, act_call, orch, cand, session, fetched, report>>
  /\ UNCHANGED <<items_raw, items_orient, items_decide, pc, batches, to_process,
                 txn, runs, prev>>

(***************************************************************************)
(* Specifications.                                                         *)
(***************************************************************************)
\* stage invocations one after the other, as the orchestrator or a single
\* user starts them, from the empty tables: a stage starts only when nothing
\* is running
Next ==
  \/ AllIdle /\ Collect
  \/ OrientStart(1)
  \/ OrientBatchDone(1, FALSE)
  \/ OrientBatchFailed(1)
  \/ OrientPersist(1)
  \/ DecideNoRecords(1)
  \/ DecideStart(1)
  \/ DecideDone(1, PipelineAnswers)
  \/ DecideFailed(1)
  \/ DecidePersist(1)

Spec == Init /\ [][Next]_vars

(***************************************************************************)
(* The Decide stage alone, over every answer of DecideAnswers, from a      *)
(* store that two ingest runs and one Orient run have filled: the raw      *)
(* items of E1 (brand in the title) and E4 (brand in the summary only),    *)
(* each with its OrientRecord.                                             *)
(***************************************************************************)
StoreRaw ==
  collect_rss(collect_rss(<<>>, <<<<E1, E2, E5>>>>).rows, <<<<E4, E6, E8>>>>).rows

StoreOrient ==
  LET batch == fetch_latest_items(StoreRaw, <<>>)
      out_items == CHOOSE out \in FaithfulResponses(batch) : TRUE
  IN commit(<<>>, orient_inserts(<<[batch |-> batch, out_items |-> out_items]>>))

InitDecide ==
  /\ items_raw = StoreRaw
  /\ items_orient = StoreOrient
  /\ items_decide = <<>>
  /\ pc = [p \in Procs |-> "idle"]
  /\ batches = [p \in Procs |-> <<>>]
  /\ to_process = [p \in Procs |-> <<>>]
  /\ pending = [p \in Procs |-> {}]
  /\ results = [p \in Procs |-> <<>>]
  /\ txn = [p \in Procs |-> <<>>]
  /\ runs = [collect |-> 0, orient |-> 0, decide |-> 0]
  /\ prev = NoRun
  /\ NoSmokeActOrch

NextDecide ==
  \/ DecideStart(1)
  \/ DecideDone(1, DecideAnswers)
  \/ DecideFailed(1)
  \/ DecidePersist(1)

SpecDecide == InitDecide /\ [][NextDecide]_vars

(***************************************************************************)
(* Two invocations that may overlap, from a store that two ingest runs     *)
(* have filled.  The service answers every Orient batch by echoing each id *)
(* once, so that no duplicate can come from an answer.                     *)
(***************************************************************************)
InitConc ==
  /\ items_raw = StoreRaw
  /\ items_orient = <<>>
  /\ items_decide = <<>>
  /\ pc = [p \in Procs |-> "idle"]
  /\ batches = [p \in Procs |-> <<>>]
  /\ to_process = [p \in Procs |-> <<>>]
  /\ pending = [p \in Procs |-> {}]
  /\ results = [p \in Procs |-> <<>>]
  /\ txn = [p \in Procs |-> <<>>]
  /\ runs = [collect |-> 0, orient |-> 0, decide |-> 0]
  /\ prev = NoRun
  /\ NoSmokeActOrch

ConcAnswers ==
  {[intent_framing |-> S_THREAT, urgency |-> S_high,
    escalation_team |-> JList(<<"PR", "Legal">>), rationale |-> "service"]}

NextConc ==
  \E p \in Procs :
     \/ OrientStart(p)
     \/ OrientBatchDone(p, TRUE)
     \/ OrientBatchFailed(p)
     \/ OrientPersist(p)
     \/ DecideNoRecords(p)
     \/ DecideStart(p)
     \/ DecideDone(p, ConcAnswers)
     \/ DecideFailed(p)
     \/ DecidePersist(p)

SpecConc == InitConc /\ [][NextConc]_vars

(***************************************************************************)
(* Invocations one after the other over a store of six raw items, which    *)
(* Orient sends as two batches (five items and one) and of which Decide    *)
(* dispatches two.                                                         *)
(***************************************************************************)
InitBatch ==
  /\ items_raw = collect_rss(<<>>, <<<<B1, B2, B3, B4, B5, B6>>>>).rows
  /\ items_orient = <<>>
  /\ items_decide = <<>>
  /\ pc = [p \in Procs |-> "idle"]
  /\ batches = [p \in Procs |-> <<>>]
  /\ to_process = [p \in Procs |-> <<>>]
  /\ pending = [p \in Procs |-> {}]
  /\ results = [p \in Procs |-> <<>>]
  /\ txn = [p \in Procs |-> <<>>]
  /\ runs = [collect |-> 0, orient |-> 0, decide |-> 0]
  /\ prev = NoRun
  /\ NoSmokeActOrch

NextBatch ==
  \/ OrientStart(1)
  \/ OrientBatchDone(1, TRUE)
  \/ OrientBatchFailed(1)
  \/ OrientPersist(1)
  \/ DecideNoRecords(1)
  \/ DecideStart(1)
  \/ DecideDone(1, PipelineAnswers)
  \/ DecideFailed(1)
  \/ DecidePersist(1)

SpecBatch == InitBatch /\ [][NextBatch]_vars

(***************************************************************************)
(* Invocations one after the other with the smoke test as a step, from the *)
(* store that two ingest runs have filled.                                 *)
(***************************************************************************)
NextSmoke ==
  \/ OrientSmokeTest(1)
  \/ OrientSmokeRaised(1)
  \/ OrientSmokePassed(1)
  \/ OrientBatchDone(1, TRUE)
  \/ OrientBatchFailed(1)
  \/ OrientPersist(1)
  \/ DecideSmokeTest(1)
  \/ DecideSmokeRaised(1)
  \/ DecideSmokePassed(1)
  \/ DecideSmokePassedNoRecords(1)
  \/ DecideDone(1, PipelineAnswers)
  \/ DecideFailed(1)
  \/ DecidePersist(1)

SpecSmoke == InitConc /\ [][NextSmoke]_vars

(***************************************************************************)
(* One invocation, of Orient or of Decide, over a store that holds         *)
(* PoolItems raw items without an OrientRecord, which Orient sends as more *)
(* batches than its pool has workers, and two raw items with one, which    *)
(* Decide dispatches.  The waiting items are older than the window of      *)
(* Decide.                                                                 *)
(***************************************************************************)
PoolFeed ==
  [i \in 1..(PoolItems + 2) |->
     Entry(<<"q">> \o num(i), <<>>, <<"w">> \o num(i),
           <<"A", " ", " ", "c", " ">> \o num(i), <<>>, <<>>,
           IF i <= 2 THEN <<Now - 5>> ELSE <<Now - 9>>, None)]

PoolRaw == collect_rss(<<>>, <<PoolFeed>>).rows

PoolOrient ==
  LET batch == <<PoolRaw[2], PoolRaw[1]>>
      out_items == CHOOSE out \in FaithfulResponses(batch) : TRUE
  IN commit(<<>>, orient_inserts(<<[batch |-> batch, out_items |-> out_items]>>))

InitPool ==
  /\ items_raw = PoolRaw
  /\ items_orient = PoolOrient
  /\ items_decide = <<>>
  /\ pc = [p \in Procs |-> "idle"]
  /\ batches = [p \in Procs |-> <<>>]
  /\ to_process = [p \in Procs |-> <<>>]
  /\ pending = [p \in Procs |-> {}]
  /\ results = [p \in Procs |-> <<>>]
  /\ txn = [p \in Procs |-> <<>>]
  /\ runs = [collect |-> MaxRuns - 1, orient |-> 0, decide |-> 0]
  /\ prev = NoRun
  /\ NoSmokeActOrch

NextPool ==
  \/ OrientStart(1)
  \/ OrientBatchDone(1, TRUE)
  \/ OrientBatchFailed(1)
  \/ OrientPersist(1)
  \/ DecideStart(1)
  \/ DecideDone(1, ConcAnswers)
  \/ DecideFailed(1)
  \/ DecidePersist(1)

SpecPool == InitPool /\ [][NextPool]_vars

(***************************************************************************)
(* One Orient invocation over the store of six raw items, sent as two      *)
(* batches, with every answer of OrientResponses: ids echoed several times *)
(* or not at all, and an element with an id that is not in the batch,      *)
(* which for the second batch is the id of an item of the first.           *)
(***************************************************************************)
InitEcho ==
  /\ items_raw = collect_rss(<<>>, <<<<B1, B2, B3, B4, B5, B6>>>>).rows
  /\ items_orient = <<>>
  /\ items_decide = <<>>
  /\ pc = [p \in Procs |-> "idle"]
  /\ batches = [p \in Procs |-> <<>>]
  /\ to_process = [p \in Procs |-> <<>>]
  /\ pending = [p \in Procs |-> {}]
  /\ results = [p \in Procs |-> <<>>]
  /\ txn = [p \in Procs |-> <<>>]
  /\ runs = [collect |-> MaxRuns - 1, orient |-> 0, decide |-> 0]
  /\ prev = NoRun
  /\ NoSmokeActOrch

NextEcho ==
  \/ OrientStart(1)
  \/ OrientBatchDone(1, FALSE)
  \/ OrientBatchFailed(1)
  \/ OrientPersist(1)

SpecEcho == InitEcho /\ [][NextEcho]_vars

(***************************************************************************)
(* The Act stage alone, over every document of ActDocs, from the stores    *)
(* the earlier stages can leave: up to two decided items with every        *)
(* severity, intent and urgency of ActKinds, or ActItems decided items     *)
(* without a THREAT whose severity grows or falls with their id, and one   *)
(* more that is older than the window.                                     *)
(***************************************************************************)
ActKinds ==
  [severity : {PyNone, PyInt(59), PyInt(60), PyStr(<<"8", "0">>)},
   intent_framing : {S_THREAT, S_NEUTRAL},
   urgency : {S_low, S_medium, <<"H", "I", "G", "H">>},
   published_at : {Now - 1}]

Rising ==
  [i \in 1..(ActItems + 1) |->
     [severity |-> PyInt(5 * i), intent_framing |-> S_NEUTRAL, urgency |-> S_low,
      published_at |-> IF i <= ActItems THEN Now - 1 ELSE Now - 9]]

Falling ==
  [i \in 1..(ActItems + 1) |->
     [severity |-> PyInt(100 - 5 * i), intent_framing |-> S_NEUTRAL, urgency |-> S_low,
      published_at |-> IF i <= ActItems THEN Now - 1 ELSE Now - 9]]

ActStores ==
  {Rising, Falling} \cup UNION {[1..n -> ActKinds] : n \in 0..2}

ActRaw(kinds) ==
  [i \in 1..Len(kinds) |->
     [id |-> i, source |-> "rss", source_item_id |-> <<"q">> \o num(i),
      brand |-> BRAND, title |-> BRAND \o <<" ">> \o num(i),
      url |-> <<"w">> \o num(i), content |-> <<>>,
      published_at |-> kinds[i].published_at]]

ActOrient(kinds) ==
  [i \in 1..Len(kinds) |->
     [id |-> i, raw_item_id |-> i, brand |-> BRAND,
      orient |-> [item_id |-> i, reputational_risk |-> "low",
                  severity |-> kinds[i].severity]]]

ActDecide(kinds) ==
  [i \in 1..Len(kinds) |->
     [id |-> i, raw_item_id |-> i, orient_id |-> i, brand |-> BRAND,
      decide |-> [intent_framing |-> kinds[i].intent_framing,
                  urgency |-> kinds[i].urgency,
                  escalation_team |-> JList(<<>>), rationale |-> "service"]]]

InitAct ==
  /\ \E kinds \in ActStores :
        /\ items_raw = ActRaw(kinds)
        /\ items_orient = ActOrient(kinds)
        /\ items_decide = ActDecide(kinds)
  /\ pc = [p \in Procs |-> "idle"]
  /\ batches = [p \in Procs |-> <<>>]
  /\ to_process = [p \in Procs |-> <<>>]
  /\ pending = [p \in Procs |-> {}]
  /\ results = [p \in Procs |-> <<>>]
  /\ txn = [p \in Procs |-> <<>>]
  /\ runs = [collect |-> 0, orient |-> 0, decide |-> 0]
  /\ prev = NoRun
  /\ NoSmokeActOrch

NextAct ==
  \/ runs_act = <<>> /\ ActNoItems
  \/ runs_act = <<>> /\ ActStart
  \/ ActDone(ActDocs)
  \/ ActFailed

SpecAct == InitAct /\ [][NextAct]_vars

(***************************************************************************)
(* One orchestration run, with every choice of --skip-collect and          *)
(* --skip-orient, from a store that two ingest runs have filled: a feed    *)
(* may bring new entries, entries already stored, or none.  The service    *)
(* echoes every Orient batch, answers Decide as in the pipeline            *)
(* specification, and the synthesis returns one document.                  *)
(***************************************************************************)
InitOrch ==
  /\ items_raw = StoreRaw
  /\ items_orient = <<>>
  /\ items_decide = <<>>
  /\ pc = [p \in Procs |-> "idle"]
  /\ batches = [p \in Procs |-> <<>>]
  /\ to_process = [p \in Procs |-> <<>>]
  /\ pending = [p \in Procs |-> {}]
  /\ results = [p \in Procs |-> <<>>]
  /\ txn = [p \in Procs |-> <<>>]
  /\ runs = [collect |-> 0, orient |-> 0, decide |-> 0]
  /\ prev = NoRun
  /\ smoke = [p \in Procs |-> "none"]
  /\ runs_act = <<>>
  /\ act_call = NoCall
  /\ cand = NoCand
  /\ fetched = NoFetch
  /\ report = NoReport
  /\ session = NoSession
  /\ \E sc, so \in BOOLEAN :
        orch = [NoOrch EXCEPT !.skip_collect = sc, !.skip_orient = so, !.at = "start"]

OrchDocs == {ActDoc(RequiredKeys, "not needed", <<"PR">>)}

NextOrch ==
  \/ OrchBegin
  \/ orch.at = "collect" /\ prev.stage # "collect" /\ Collect
  \/ OrchCollectReturned
  \/ orch.at = "orient" /\ runs.orient = 0 /\ OrientStart(1)
  \/ OrientBatchDone(1, TRUE)
  \/ OrientBatchFailed(1)
  \/ OrientPersist(1)
  \/ OrchOrientReturned
  \/ orch.at = "decide" /\ runs.decide = 0 /\ DecideNoRecords(1)
  \/ orch.at = "decide" /\ runs.decide = 0 /\ DecideStart(1)
  \/ DecideDone(1, PipelineAnswers)
  \/ DecideFailed(1)
  \/ DecidePersist(1)
  \/ OrchDecideReturned
  \/ orch.at = "act" /\ prev.stage # "act" /\ ActNoItems
  \/ orch.at = "act" /\ prev.stage # "act" /\ ActStart
  \/ ActDone(OrchDocs)
  \/ ActFailed
  \/ OrchActReturned

SpecOrch == InitOrch /\ [][NextOrch]_vars

(***************************************************************************)
(* Decide invoked again and again on a store that does not change: 2,      *)
(* LiveItems - 1 or LiveItems OrientRecords of the brand, all in the       *)
(* window, all of                                                          *)
(* severity 20, each naming the brand.  Of the schedules of the pool       *)
(* those are followed in which the calls end in submission order and only  *)
(* the first call of a run may raise.  Fairness: an idle stage is invoked  *)
(* again, a joined pool is left, and a call that is dispatched again and   *)
(* again eventually succeeds.                                              *)
(***************************************************************************)
LiveKinds(n) ==
  [i \in 1..n |->
     [severity |-> PyInt(20), intent_framing |-> S_NEUTRAL, urgency |-> S_low,
      published_at |-> Now - 1]]

InitDecideLive ==
  /\ \E n \in {2, LiveItems - 1, LiveItems} :
        /\ items_raw = ActRaw(LiveKinds(n))
        /\ items_orient = ActOrient(LiveKinds(n))
  /\ items_decide = <<>>
  /\ pc = [p \in Procs |-> "idle"]
  /\ batches = [p \in Procs |-> <<>>]
  /\ to_process = [p \in Procs |-> <<>>]
  /\ pending = [p \in Procs |-> {}]
  /\ results = [p \in Procs |-> <<>>]
  /\ txn = [p \in Procs |-> <<>>]
  /\ runs = [collect |-> 0, orient |-> 0, decide |-> 0]
  /\ prev = NoRun
  /\ NoSmokeActOrch

LiveDone == DecideDone(1, ConcAnswers) /\ first_submitted(1)

NextDecideLive ==
  \/ DecideAgain(1)
  \/ LiveDone
  \/ DecideFailed(1) /\ first_submitted(1) /\ none_ended(1)
  \/ DecidePersist(1)

SpecDecideLive ==
  /\ InitDecideLive
  /\ [][NextDecideLive]_vars
  /\ WF_vars(DecideAgain(1))
  /\ WF_vars(DecidePersist(1))
  /\ SF_vars(LiveDone)

(***************************************************************************)
(* Orient invoked again and again on a raw store that does not change:     *)
(* TwinItems raw items of which the three oldest have the same title up to *)
(* case and to the trailing " - Source".  An answer echoes each id of its  *)
(* batch once or not at all; a batch call may raise.  Fairness: an idle    *)
(* stage is invoked again, a joined pool is left, and a batch that is      *)
(* dispatched again and again is eventually answered with every id echoed  *)
(* once.                                                                   *)
(***************************************************************************)
TwinTitle(i) ==
  IF i > 3 THEN BRAND \o <<" ">> \o num(i)
  ELSE IF i = 3 THEN <<"S", "t", "o", "r", "y", " ", "-", " ", "x">>
  ELSE IF i = 2 THEN <<"s", "t", "o", "r", "y", " ", "-", " ", "y">>
  ELSE <<"S", "T", "O", "R", "Y">>

TwinRaw ==
  [i \in 1..TwinItems |->
     [ActRaw(LiveKinds(TwinItems))[i] EXCEPT !.title = TwinTitle(i)]]

InitOrientLive ==
  /\ items_raw = TwinRaw
  /\ items_orient = <<>>
  /\ items_decide = <<>>
  /\ pc = [p \in Procs |-> "idle"]
  /\ batches = [p \in Procs |-> <<>>]
  /\ to_process = [p \in Procs |-> <<>>]
  /\ pending = [p \in Procs |-> {}]
  /\ results = [p \in Procs |-> <<>>]
  /\ txn = [p \in Procs |-> <<>>]
  /\ runs = [collect |-> 0, orient |-> 0, decide |-> 0]
  /\ prev = NoRun
  /\ NoSmokeActOrch

NextOrientLive ==
  \/ OrientAgain(1)
  \/ OrientBatchDone(1, FALSE) /\ echoes_at_most_once(1)
  \/ OrientBatchFailed(1)
  \/ OrientPersist(1)

SpecOrientLive ==
  /\ InitOrientLive
  /\ [][NextOrientLive]_vars
  /\ WF_vars(OrientAgain(1))
  /\ WF_vars(OrientPersist(1))
  /\ SF_vars(OrientBatchDone(1, TRUE))

(***************************************************************************)
(* One Orient run whose batch calls all succeed and echo every id once,    *)
(* on the raw store of SpecOrientLive, from every choice of the raw items  *)
(* that already have their OrientRecord.                                   *)
(***************************************************************************)
TwinOrient(done) ==
  LET ids == [n \in 1..Cardinality(done) |->
                CHOOSE i \in done : Cardinality({j \in done : j < i}) = n - 1]
  IN [n \in 1..Len(ids) |->
        [id |-> n, raw_item_id |-> ids[n], brand |-> BRAND,
         orient |-> [item_id |-> ids[n], reputational_risk |-> "low",
                     severity |-> PyInt(20)]]]

InitTwin ==
  /\ items_raw = TwinRaw
  /\ \E done \in SUBSET (1..TwinItems) : items_orient = TwinOrient(done)
  /\ items_decide = <<>>
  /\ pc = [p \in Procs |-> "idle"]
  /\ batches = [p \in Procs |-> <<>>]
  /\ to_process = [p \in Procs |-> <<>>]
  /\ pending = [p \in Procs |-> {}]
  /\ results = [p \in Procs |-> <<>>]
  /\ txn = [p \in Procs |-> <<>>]
  /\ runs = [collect |-> MaxRuns - 1, orient |-> 0, decide |-> 0]
  /\ prev = NoRun
  /\ NoSmokeActOrch

NextTwin ==
  \/ OrientStart(1)
  \/ OrientBatchDone(1, TRUE)
  \/ OrientPersist(1)

SpecTwin == InitTwin /\ [][NextTwin]_vars


(***************************************************************************)
(* The tests of the ingest loop on one candidate entry, for every subject  *)
(* name get_brand(cfg) may return and every zone the process may run in.   *)
(***************************************************************************)
Brands == {BRAND, <<>>}

\* how far east of UTC the zone of the process is, in units of the clock
Zones == {-1, 0, 1}

CandTitles == {BRAND, <<"a", " ", " ", "C", " ", "x">>, <<"n">>, <<" ">>}

CandSummaries == {<<>>, <<"k">>, <<"n", " ", "A", " ", " ", "c">>, <<"K", " ", "a", " ", " ", "c">>}

Candidates ==
  {Entry(<<"g", "1">>, <<>>, <<"u", "1">>, title, summary, <<>>, published, updated) :
     title \in CandTitles, summary \in CandSummaries,
     published \in {<<15>>, <<cutoff>>, <<cutoff - 1>>, None},
     updated \in {None, <<15>>}}

InitFilter ==
  /\ items_raw = <<>>
  /\ items_orient = <<>>
  /\ items_decide = <<>>
  /\ pc = [p \in Procs |-> "idle"]
  /\ batches = [p \in Procs |-> <<>>]
  /\ to_process = [p \in Procs |-> <<>>]
  /\ pending = [p \in Procs |-> {}]
  /\ results = [p \in Procs |-> <<>>]
  /\ txn = [p \in Procs |-> <<>>]
  /\ runs = [collect |-> 0, orient |-> 0, decide |-> 0]
  /\ prev = NoRun
  /\ smoke = [p \in Procs |-> "none"]
  /\ runs_act = <<>>
  /\ act_call = NoCall
  /\ orch = NoOrch
  /\ fetched = NoFetch
  /\ report = NoReport
  /\ session = NoSession
  /\ \E brand \in Brands, tz \in Zones, entry \in Candidates :
        cand = [brand |-> brand, tz |-> tz, entry |-> entry, verdict |-> "none"]

\* one turn of the loop over the entries, on an entry whose key is not in
\* the store: it reaches the INSERT or leaves at one of the continue
FilterEntry ==
  /\ cand.verdict = "none"
  /\ cand' = [cand EXCEPT !.verdict =
                IF filter_as(cand.entry, cand.brand, cand.tz) THEN "insert" ELSE "skip"]
  /\ UNCHANGED <<items_raw, items_orient, items_decide, pc, batches, to_process,
                 pending, results, txn, runs, prev, smoke, runs_act, act_call, orch,
                 fetched, report, session>>

NextFilter == FilterEntry

SpecFilter == InitFilter /\ [][NextFilter]_vars


\* ingest runs only, from the empty store
NextFetch == CollectFetched

SpecFetch == Init /\ [][NextFetch]_vars


(***************************************************************************)
(* The four stages invoked one after the other in any order, from the      *)
(* empty store: each may run again on what the others have committed.      *)
(***************************************************************************)
NoStageRunning == AllIdle /\ act_call = NoCall

NextFrame ==
  \/ NoStageRunning /\ Collect
  \/ NoStageRunning /\ OrientStart(1)
  \/ OrientBatchDone(1, TRUE)
  \/ OrientBatchFailed(1)
  \/ OrientPersist(1)
  \/ NoStageRunning /\ DecideNoRecords(1)
  \/ NoStageRunning /\ DecideStart(1)
  \/ DecideDone(1, PipelineAnswers)
  \/ DecideFailed(1)
  \/ DecidePersist(1)
  \/ NoStageRunning /\ ActNoItems
  \/ NoStageRunning /\ ActStart
  \/ ActDone(OrchDocs)
  \/ ActFailed

SpecFrame == Init /\ [][NextFrame]_vars


(***************************************************************************)
(* Orient runs on a store of raw items, the service classifying freely.    *)
(***************************************************************************)
InitClassify ==
  /\ items_raw = StoreRaw
  /\ items_orient = <<>>
  /\ items_decide = <<>>
  /\ pc = [p \in Procs |-> "idle"]
  /\ batches = [p \in Procs |-> <<>>]
  /\ to_process = [p \in Procs |-> <<>>]
  /\ pending = [p \in Procs |-> {}]
  /\ results = [p \in Procs |-> <<>>]
  /\ txn = [p \in Procs |-> <<>>]
  /\ runs = [collect |-> MaxRuns - 1, orient |-> 0, decide |-> 0]
  /\ prev = NoRun
  /\ NoSmokeActOrch

NextClassify ==
  \/ OrientStart(1)
  \/ OrientBatchClassified(1)
  \/ OrientBatchFailed(1)
  \/ OrientPersist(1)

SpecClassify == InitClassify /\ [][NextClassify]_vars


(***************************************************************************)
(* One Act invocation on stores of as many decided items as the LIMIT of   *)
(* the join, one fewer and more; the oldest item is out of the window.     *)
(***************************************************************************)
ManyKinds(n) ==
  [i \in 1..n |->
     [severity |-> PyInt(i), intent_framing |-> S_NEUTRAL, urgency |-> S_low,
      published_at |-> IF i = 1 THEN Now - act_window_days - 1 ELSE Now - 1]]

InitMany ==
  /\ \E n \in {2, ManyItems - 2, ManyItems - 1, ManyItems, ManyItems + 1} :
        /\ items_raw = ActRaw(ManyKinds(n))
        /\ items_orient = ActOrient(ManyKinds(n))
        /\ items_decide = ActDecide(ManyKinds(n))
  /\ pc = [p \in Procs |-> "idle"]
  /\ batches = [p \in Procs |-> <<>>]
  /\ to_process = [p \in Procs |-> <<>>]
  /\ pending = [p \in Procs |-> {}]
  /\ results = [p \in Procs |-> <<>>]
  /\ txn = [p \in Procs |-> <<>>]
  /\ runs = [collect |-> 0, orient |-> 0, decide |-> 0]
  /\ prev = NoRun
  /\ NoSmokeActOrch

NextMany ==
  \/ runs_act = <<>> /\ ActStart
  \/ ActDone(ActDocs)
  \/ ActFailed

SpecMany == InitMany /\ [][NextMany]_vars


(***************************************************************************)
(* ui_streamlit.py: the password gate.  Streamlit runs the script from the *)
(* top on every interaction of the session; a widget can be filled in or   *)
(* clicked only if the run before rendered it.                             *)
(***************************************************************************)
\* what may be typed into the password field
Passwords == {"", "pw", "wrong"}

\* the orchestrator subprocess, if any, has ended
NoSubprocess == orch.at \in {"none", "done", "raised", "stopped"}

\* the gate with its elif branch falling through
ScriptGateOpen(pwd_input) ==
  /\ session.at = "idle"
  /\ NoSubprocess
  /\ IF session.password # "" /\ ~session.authed
     THEN /\ pwd_input \in (IF session.shown = "gate" THEN Passwords
                                                      ELSE {session.app_pwd})
          /\ IF pwd_input = session.password
             THEN session' = [session EXCEPT !.app_pwd = pwd_input, !.authed = TRUE,
                                             !.at = "body"]
             ELSE IF pwd_input # ""
             THEN session' = [session EXCEPT !.app_pwd = pwd_input, !.at = "body"]
             ELSE session' = [session EXCEPT !.app_pwd = pwd_input, !.shown = "gate"]
     ELSE /\ pwd_input = session.app_pwd
          /\ session' = [session EXCEPT !.at = "body"]
  /\ UNCHANGED <<smoke, runs_act, act_call, orch, cand, fetched, report>>
  /\ UNCHANGED <<items_raw, items_orient, items_decide, pc, batches, to_process,
                 pending, results, txn, runs, prev>>

\* a script run from its top to the end of the gate: with APP_PASSWORD set
\* and the session not authed, the field is rendered and the run goes on only
\* if its value equals APP_PASSWORD; st.stop() ends the run otherwise
ScriptGate(pwd_input) ==
  /\ session.at = "idle"
  /\ NoSubprocess
  /\ IF session.password # "" /\ ~session.authed
     THEN /\ pwd_input \in (IF session.shown = "gate" THEN Passwords
                                                      ELSE {session.app_pwd})
          /\ IF pwd_input = session.password
             THEN session' = [session EXCEPT !.app_pwd = pwd_input, !.authed = TRUE,
                                             !.at = "body"]
             ELSE session' = [session EXCEPT !.app_pwd = pwd_input, !.shown = "gate"]
     ELSE /\ pwd_input = session.app_pwd
          /\ session' = [session EXCEPT !.at = "body"]
  /\ UNCHANGED <<smoke, runs_act, act_call, orch, cand, fetched, report>>
  /\ UNCHANGED <<items_raw, items_orient, items_decide, pc, batches, to_process,
                 pending, results, txn, runs, prev>>

\* the rest of the script run: the brand input and the button are rendered;
\* if the button was clicked, orchestrator.py is started with no argument
ScriptBody(run) ==
  /\ session.at = "body"
  /\ run \in (IF session.shown = "brand" /\ orch.at = "none" THEN BOOLEAN ELSE {FALSE})
  /\ session' = [session EXCEPT !.at = "idle", !.shown = "brand",
                                !.launches = IF run THEN @ + 1 ELSE @]
  /\ orch' = IF run THEN [NoOrch EXCEPT !.at = "init", !.invoked = {"init"}] ELSE orch
  /\ UNCHANGED <<smoke, runs_act, act_call, cand, fetched, report>>
  /\ UNCHANGED <<items_raw, items_orient, items_decide, pc, batches, to_process,
                 pending, results, txn, runs, prev>>

(***************************************************************************)
(* One orchestration run with init_db and the smoke tests as steps, with   *)
(* every choice of --skip-init, --skip-collect and --skip-orient.          *)
(***************************************************************************)
InitPipeline ==
  /\ items_raw = StoreRaw
  /\ items_orient = <<>>
  /\ items_decide = <<>>
  /\ pc = [p \in Procs |-> "idle"]
  /\ batches = [p \in Procs |-> <<>>]
  /\ to_process = [p \in Procs |-> <<>>]
  /\ pending = [p \in Procs |-> {}]
  /\ results = [p \in Procs |-> <<>>]
  /\ txn = [p \in Procs |-> <<>>]
  /\ runs = [collect |-> 0, orient |-> 0, decide |-> 0]
  /\ prev = NoRun
  /\ smoke = [p \in Procs |-> "none"]
  /\ runs_act = <<>>
  /\ act_call = NoCall
  /\ cand = NoCand
  /\ fetched = NoFetch
  /\ report = NoReport
  /\ session = NoSession
  /\ \E skip_init, sc, so \in BOOLEAN :
        orch = [NoOrch EXCEPT !.skip_collect = sc, !.skip_orient = so,
                              !.at = IF skip_init THEN "start" ELSE "init",
                              !.invoked = IF skip_init THEN {} ELSE {"init"}]

NextPipeline ==
  \/ OrchInitReturned
  \/ OrchBegin
  \/ orch.at = "collect" /\ prev.stage # "collect" /\ Collect
  \/ OrchCollectReturned
  \/ orch.at = "orient" /\ runs.orient = 0 /\ OrientSmokeTest(1)
  \/ OrientSmokeRaised(1)
  \/ OrientSmokePassed(1)
  \/ OrientBatchDone(1, TRUE)
  \/ OrientBatchFailed(1)
  \/ OrientPersist(1)
  \/ OrchOrientReturned
  \/ orch.at = "decide" /\ runs.decide = 0 /\ DecideSmokeTest(1)
  \/ DecideSmokeRaised(1)
  \/ DecideSmokePassed(1)
  \/ DecideSmokePassedNoRecords(1)
  \/ DecideDone(1, PipelineAnswers)
  \/ DecideFailed(1)
  \/ DecidePersist(1)
  \/ OrchDecideReturned
  \/ orch.at = "act" /\ prev.stage # "act" /\ ActNoItems
  \/ orch.at = "act" /\ prev.stage # "act" /\ ActStart
  \/ ActDone(OrchDocs)
  \/ ActFailed
  \/ OrchActReturned

SpecPipeline == InitPipeline /\ [][NextPipeline]_vars


(***************************************************************************)
(* compute_stats over item lists of every shape: severities that are       *)
(* numbers, strings or missing, in any order and with ties; categories and *)
(* risks present or missing; more numeric severities than the top keeps.   *)
(***************************************************************************)
StatsKinds ==
  [severity : {PyNone, PyInt(10), PyInt(70), PyStr(<<"8", "0">>)},
   intent_framing : {S_THREAT, <<>>},
   urgency : {S_low, <<"H", "I", "G", "H">>},
   narrative_category : {"", "legal"},
   reputational_risk : {"", "high"}]

StatsKind(sev, intent, urg, cat, risk) ==
  [severity |-> sev, intent_framing |-> intent, urgency |-> urg,
   narrative_category |-> cat, reputational_risk |-> risk]

Mixed ==
  <<StatsKind(PyInt(30), S_NEUTRAL, S_low, "legal", "low"),
    StatsKind(PyNone, S_THREAT, S_medium, "", ""),
    StatsKind(PyInt(90), S_THREAT, S_high, "product", "high"),
    StatsKind(PyInt(50), S_DEFENSE, S_low, "legal", "medium"),
    StatsKind(PyInt(90), <<>>, <<>>, "", "high"),
    StatsKind(PyStr(<<"8", "0">>), S_NOISE, S_low, "other", "low"),
    StatsKind(PyInt(10), S_OPPORTUNITY, S_medium, "product", ""),
    StatsKind(PyInt(70), S_NEUTRAL, S_low, "legal", "low"),
    StatsKind(PyInt(-5), S_NEUTRAL, S_low, "legal", "low")>>

StatsStores ==
  UNION {[1..n -> StatsKinds] : n \in 0..1}
    \cup {SubSeq(Mixed, 1, k) : k \in 2..Len(Mixed)}
    \cup {SubSeq(Mixed, k, Len(Mixed)) : k \in 2..(Len(Mixed) - 1)}

\* a key of orient_json, left out when the service gave none
opt(key, val) == IF val = "" THEN [k \in {} |-> ""] ELSE [k \in {key} |-> val]

StatsOrient(kinds) ==
  [i \in 1..Len(kinds) |->
     [id |-> i, raw_item_id |-> i, brand |-> BRAND,
      orient |-> [item_id |-> i, severity |-> kinds[i].severity]
                   @@ opt("narrative_category", kinds[i].narrative_category)
                   @@ opt("reputational_risk", kinds[i].reputational_risk)]]

StatsRaw(kinds) ==
  [i \in 1..Len(kinds) |->
     [id |-> i, source |-> "rss", source_item_id |-> <<"q">> \o num(i),
      brand |-> BRAND, title |-> BRAND \o <<" ">> \o num(i),
      url |-> <<"w">> \o num(i), content |-> <<>>, published_at |-> Now - 1]]

InitStats ==
  /\ \E kinds \in StatsStores :
        /\ items_raw = StatsRaw(kinds)
        /\ items_orient = StatsOrient(kinds)
        /\ items_decide = ActDecide(kinds)
  /\ pc = [p \in Procs |-> "idle"]
  /\ batches = [p \in Procs |-> <<>>]
  /\ to_process = [p \in Procs |-> <<>>]
  /\ pending = [p \in Procs |-> {}]
  /\ results = [p \in Procs |-> <<>>]
  /\ txn = [p \in Procs |-> <<>>]
  /\ runs = [collect |-> 0, orient |-> 0, decide |-> 0]
  /\ prev = NoRun
  /\ NoSmokeActOrch

NextStats ==
  \/ runs_act = <<>> /\ ActNoItems
  \/ runs_act = <<>> /\ ActStart
  \/ ActDone(ActDocs)
  \/ ActFailed

SpecStats == InitStats /\ [][NextStats]_vars


(***************************************************************************)
(* Two runs of one stage side by side on one selection: both select before *)
(* either commits, their calls complete in any order and with any outcome, *)
(* so that every pair of completion orders of the same outcomes is         *)
(* reached.  The stores: six raw items not yet oriented (two batches), and *)
(* the oriented store of the Decide runs.                                  *)
(***************************************************************************)
OrderRaw == collect_rss(<<>>, <<<<B1, B2, B3, B4, B5, B6>>>>).rows

OrderItems == 3

\* the oriented store: the OrderItems newest raw items classified
OrderOrient ==
  LET batch == SubSeq(fetch_latest_items(OrderRaw, <<>>), 1, OrderItems)
      out_items == CHOOSE out \in FaithfulResponses(batch) : TRUE
  IN commit(<<>>, orient_inserts(<<[batch |-> batch, out_items |-> out_items]>>))

InitOrder ==
  /\ items_raw = OrderRaw
  /\ items_orient \in {<<>>, OrderOrient}
  /\ items_decide = <<>>
  /\ pc = [p \in Procs |-> "idle"]
  /\ batches = [p \in Procs |-> <<>>]
  /\ to_process = [p \in Procs |-> <<>>]
  /\ pending = [p \in Procs |-> {}]
  /\ results = [p \in Procs |-> <<>>]
  /\ txn = [p \in Procs |-> <<>>]
  /\ runs = [collect |-> 0, orient |-> 0, decide |-> 0]
  /\ prev = NoRun
  /\ NoSmokeActOrch

NextOrder ==
  \E p \in Procs :
     \/ items_orient = <<>> /\ OrientStart(p)
     \/ OrientBatchDone(p, TRUE)
     \/ OrientBatchFailed(p)
     \/ OrientPersist(p)
     \/ items_orient = OrderOrient /\ items_decide = <<>> /\ DecideStart(p)
     \/ DecideDone(p, PipelineAnswers)
     \/ DecideFailed(p)
     \/ DecidePersist(p)

SpecOrder == InitOrder /\ [][NextOrder]_vars


(***************************************************************************)
(* The dashboard session, with and without APP_PASSWORD, and the           *)
(* orchestrator run its button starts.                                     *)
(***************************************************************************)
InitDashboard ==
  /\ items_raw = StoreRaw
  /\ items_orient = <<>>
  /\ items_decide = <<>>
  /\ pc = [p \in Procs |-> "idle"]
  /\ batches = [p \in Procs |-> <<>>]
  /\ to_process = [p \in Procs |-> <<>>]
  /\ pending = [p \in Procs |-> {}]
  /\ results = [p \in Procs |-> <<>>]
  /\ txn = [p \in Procs |-> <<>>]
  /\ runs = [collect |-> 0, orient |-> 0, decide |-> 0]
  /\ prev = NoRun
  /\ smoke = [p \in Procs |-> "none"]
  /\ runs_act = <<>>
  /\ act_call = NoCall
  /\ orch = NoOrch
  /\ cand = NoCand
  /\ fetched = NoFetch
  /\ report = NoReport
  /\ \E password \in {"", "pw"} : session = [NoSession EXCEPT !.password = password]

NextDashboard ==
  \/ \E pwd_input \in Passwords : ScriptGate(pwd_input)
  \/ \E run \in BOOLEAN : ScriptBody(run)
  \/ NextPipeline

SpecDashboard == InitDashboard /\ [][NextDashboard]_vars

(***************************************************************************)
(* Claims.                                                                 *)
(***************************************************************************)
InOrient(p) == pc[p] = "orient_pool"
InDecide(p) == pc[p] = "decide_pool"

\* C1: after any sequence of ingest runs items_raw holds at most one row per
\* (source, source_item_id), and no ingest run has raised: an entry whose key
\* is already stored (from an earlier run or earlier in the same batch) is
\* skipped, never sent to the INSERT that the UNIQUE constraint would refuse.
C1_OneRowPerKey ==
  /\ \A i, j \in 1..Len(items_raw) :
        (/\ items_raw[i].source = items_raw[j].source
         /\ items_raw[i].source_item_id = items_raw[j].source_item_id) => i = j
  /\ prev.stage = "collect" => prev.clean

\* C1 witness: a second ingest run over a feed already ingested has inserted
\* nothing, after a first run whose batch held the key g1 three times (E2,
\* E1, E1) and stored it once
C1_Witness ==
  /\ runs.collect = 2
  /\ prev.stage = "collect" /\ prev.new_rows = 0
  /\ Len(items_raw) = 1
  /\ items_raw[1].source_item_id = <<"g", "1">>
  /\ items_raw[1].url = <<"u", "2">>

\* C5: a Decide run that starts right after a Decide run in which no call
\* raised, with no OrientRecord added in between, dispatches no call and
\* inserts no row.
C5_DecideIdempotent ==
  \A p \in Procs :
     (InDecide(p) /\ prev.stage = "decide" /\ prev.clean) =>
        /\ to_process[p] = <<>>
        /\ txn[p] = <<>>
        /\ results[p] = <<>>

\* C5 witness: the second run is under way after a first run that wrote rows
\* from answers and from the brand relevance check
C5_Witness ==
  /\ InDecide(1) /\ prev.stage = "decide" /\ prev.clean
  /\ prev.done > 0 /\ prev.new_rows > prev.done

\* C6 as claimed: an Orient run that starts right after an Orient run in
\* which every batch was answered with every id echoed once, with no RawItem
\* added in between, inserts no row.
C6_OrientIdempotent ==
  \A p \in Procs :
     (InOrient(p) /\ prev.stage = "orient" /\ prev.clean) =>
        orient_inserts(results[p]) = <<>>

\* C7: after any sequence of Decide runs that do not overlap, items_decide
\* holds at most one row per orient_id.
C7_OneDecidePerOrient ==
  \A i, j \in 1..Len(items_decide) :
     items_decide[i].orient_id = items_decide[j].orient_id => i = j

\* C7 witness: two Decide runs have returned, the last one after a run in
\* which a call raised; the table holds a row of the brand relevance check
\* and a row from an answer
C7_Witness ==
  /\ runs.decide = 2 /\ AllIdle /\ prev.stage = "decide" /\ prev.done > 0
  /\ \E i, j \in 1..Len(items_decide) :
        /\ items_decide[i].decide.rationale = "template"
        /\ items_decide[j].decide.rationale = "service"

\* C8 as claimed: after any sequence of Orient runs that do not overlap,
\* items_orient holds at most one row per raw_item_id, whatever the answers.
C8_OneOrientPerRaw ==
  \A i, j \in 1..Len(items_orient) :
     items_orient[i].raw_item_id = items_orient[j].raw_item_id => i = j

\* every row of items_decide, committed or inserted on a connection, and
\* every result on its way to the insert loop
DecideObjects ==
  {items_decide[i].decide : i \in 1..Len(items_decide)}
    \cup UNION {{txn[p][i].decide : i \in 1..Len(txn[p])} : p \in Procs}
    \cup UNION {{results[p][i].decide : i \in 1..Len(results[p])} : p \in Procs}

\* whether an answered string, trimmed and read without regard to case, is
\* one of the values of an enum
in_enum(v, enum) == \E e \in enum : upper(strip(get_str(v))) = upper(e)

\* C2: every DecideRecord, from an answer or from the brand relevance check,
\* has intent_framing in the enum of five values, and an answer whose
\* intent_framing is missing or not a value of the enum is stored as NEUTRAL.
C2_IntentInEnum ==
  /\ \A d \in DecideObjects : d.intent_framing \in INTENT_ENUM
  /\ \A p \in Procs : \A i \in 1..Len(results[p]) :
        ~in_enum(results[p][i].answer.intent_framing, INTENT_ENUM) =>
           results[p][i].decide.intent_framing = S_NEUTRAL

\* C2 witness: a first run, whose call raised, has committed the NOISE row of
\* the brand relevance check; the second run holds the answer "bogus", made
\* NEUTRAL, for the record it sent again
C2_Witness ==
  /\ InDecide(1) /\ runs.decide = 2
  /\ \E i \in 1..Len(items_decide) :
        /\ items_decide[i].decide.rationale = "template"
        /\ items_decide[i].decide.intent_framing = S_NOISE
  /\ \E i \in 1..Len(results[1]) :
        /\ results[1][i].answer.intent_framing = <<"b", "o", "g", "u", "s">>
        /\ results[1][i].decide.intent_framing = S_NEUTRAL

\* C3 as claimed: the stored urgency of every DecideRecord is exactly one of
\* low, medium, high, for every string the service may answer.
C3_UrgencyInEnum ==
  \A i \in 1..Len(items_decide) : items_decide[i].decide.urgency \in URGENCY_ENUM

\* C4 as claimed: every DecideRecord stored with intent_framing NEUTRAL or
\* NOISE has an empty escalation_team.
C4_NoEscalationForNeutralNoise ==
  \A i \in 1..Len(items_decide) :
     items_decide[i].decide.intent_framing \in {S_NEUTRAL, S_NOISE} =>
        items_decide[i].decide.escalation_team.v = <<>>

\* the rows a step has appended to a table
appended(old, new) == SubSeq(new, Len(old) + 1, Len(new))

\* C9: no claim step and no uniqueness constraint stands between an
\* invocation and its inserts: when it leaves the pool it inserts a row for
\* every answer it holds, also for an upstream record that another
\* invocation, which selected it too, has written a row for meanwhile.
C9_InsertsWhateverIsStored ==
  [][\A p \in Procs :
       /\ (InOrient(p) /\ pc'[p] = "idle") =>
             /\ Len(items_orient') = Len(items_orient) + Len(orient_inserts(results[p]))
             /\ \A i \in 1..Len(results[p]) : \A k \in 1..Len(results[p][i].batch) :
                   \E j \in Len(items_orient) + 1..Len(items_orient') :
                      items_orient'[j].raw_item_id = results[p][i].batch[k].id
       /\ (InDecide(p) /\ pc'[p] = "idle") =>
             /\ Len(items_decide') = Len(items_decide) + Len(txn[p]) + Len(results[p])
             /\ \A i \in 1..Len(results[p]) :
                   \E j \in Len(items_decide) + 1..Len(items_decide') :
                      items_decide'[j].orient_id = results[p][i].orient_id]_vars

\* C9 witness: two rows of items_orient for one raw item and two rows of
\* items_decide for one OrientRecord
C9_Witness ==
  /\ \E i, j \in 1..Len(items_orient) :
        i # j /\ items_orient[i].raw_item_id = items_orient[j].raw_item_id
  /\ \E i, j \in 1..Len(items_decide) :
        i # j /\ items_decide[i].orient_id = items_decide[j].orient_id

\* C10: a call that raises is not sent again in the invocation (a future
\* leaves the pending set once), and when the invocation leaves the pool it
\* keeps the committed rows, writes no row for a record whose call raised
\* and writes a row for every answer of the calls that returned.
C10_FailedCallOnlyDropsItsRecords ==
  [][\A p \in Procs :
       /\ pc[p] # "idle" => pending'[p] \subseteq pending[p]
       /\ (InOrient(p) /\ pc'[p] = "idle") =>
             LET new == appended(items_orient, items_orient')
                 answered == {results[p][i].batch : i \in 1..Len(results[p])}
             IN /\ SubSeq(items_orient', 1, Len(items_orient)) = items_orient
                /\ \A b \in 1..Len(batches[p]) :
                      batches[p][b] \notin answered =>
                         \A k \in 1..Len(batches[p][b]) : \A j \in 1..Len(new) :
                            new[j].raw_item_id # batches[p][b][k].id
                /\ \A i \in 1..Len(results[p]) :
                      \A e \in 1..Len(results[p][i].out_items) :
                         (\E k \in 1..Len(results[p][i].batch) :
                             results[p][i].batch[k].id = results[p][i].out_items[e].item_id)
                         => \E j \in 1..Len(new) :
                               /\ new[j].raw_item_id = results[p][i].out_items[e].item_id
                               /\ new[j].orient = results[p][i].out_items[e]
       /\ (InDecide(p) /\ pc'[p] = "idle") =>
             LET new == appended(items_decide, items_decide')
                 answered == {results[p][i].orient_id : i \in 1..Len(results[p])}
             IN /\ SubSeq(items_decide', 1, Len(items_decide)) = items_decide
                /\ \A k \in 1..Len(to_process[p]) :
                      to_process[p][k].orient_id \notin answered =>
                         \A j \in 1..Len(new) :
                            new[j].orient_id # to_process[p][k].orient_id
                /\ \A i \in 1..Len(results[p]) :
                      \E j \in 1..Len(new) :
                         /\ new[j].orient_id = results[p][i].orient_id
                         /\ new[j].raw_item_id = results[p][i].raw_item_id
                         /\ new[j].decide = results[p][i].decide]_vars

\* C10 witness: the last Decide run wrote the row of one answer while its
\* other call raised, over the five OrientRecords of an Orient run whose
\* other batch raised
C10_Witness ==
  /\ AllIdle /\ prev.stage = "decide" /\ prev.failed = 1 /\ prev.done = 1
  /\ runs.orient = 1 /\ Len(items_orient) = 5
  /\ \E i \in 1..Len(items_decide) : items_decide[i].decide.rationale = "service"

\* C11: when the smoke-test call of an Orient or Decide invocation has raised,
\* the next step of the invocation leaves main: nothing has been or is
\* submitted to the pool, nothing has been or is inserted on its connection,
\* and items_orient and items_decide stay as they are.
C11_SmokeFailureAborts ==
  [][\A p \in Procs :
       pc[p] \in {"orient_smoke", "decide_smoke"} =>
          /\ pending[p] = {} /\ txn[p] = <<>>
          /\ smoke[p] # "ok" =>
                /\ pc'[p] = "idle"
                /\ pending'[p] = {} /\ txn'[p] = <<>>
                /\ items_orient' = items_orient
                /\ items_decide' = items_decide]_vars

\* an Orient invocation whose smoke test raised AuthenticationError has
\* returned, with raw items still waiting for their OrientRecord
C11_Witness ==
  /\ pc[1] = "idle" /\ smoke[1] = "AuthenticationError"
  /\ prev.stage = "orient" /\ ~prev.clean
  /\ items_orient = <<>>
  /\ fetch_latest_items(items_raw, items_orient) # <<>>

\* the records a Decide invocation that starts now selects and finds undecided
SelectedUndecided ==
  LET records ==
        fetch_recent_orient_with_raw(items_raw, items_orient, BRAND, decide_limit)
  IN {records[i] : i \in {i \in 1..Len(records) :
                            \A k \in 1..Len(items_decide) :
                               items_decide[k].orient_id # records[i].orient_id}}

\* whether the lower-cased title, content and url of a record, put one after
\* the other with a blank between, hold the lower-cased subject name
MentionsSubject(rec) ==
  contains(lower(rec.title) \o <<" ">> \o lower(rec.content) \o <<" ">> \o lower(rec.url),
           lower(BRAND))

\* C12: when a Decide run with a non-empty subject name starts, every selected
\* undecided record that does not mention the name gets exactly one row on
\* the connection, with NOISE, low, an empty escalation_team and the fixed
\* rationale, and is not submitted to the pool; every one that mentions it is
\* submitted once and gets no such row.  When the run returns the rows of
\* the connection are committed, one DecideRecord for each.
C12_ShortCircuitNoise ==
  [][/\ (pc[1] = "idle" /\ pc'[1] = "decide_pool" /\ BRAND # <<>>) =>
          \A rec \in SelectedUndecided :
             LET rows == {k \in 1..Len(txn'[1]) : txn'[1][k].orient_id = rec.orient_id}
                 sent == {k \in pending'[1] :
                            to_process'[1][k].orient_id = rec.orient_id}
             IN IF MentionsSubject(rec)
                THEN rows = {} /\ Cardinality(sent) = 1
                ELSE /\ sent = {} /\ Cardinality(rows) = 1
                     /\ \A k \in rows :
                          /\ txn'[1][k].decide.intent_framing = S_NOISE
                          /\ txn'[1][k].decide.urgency = S_low
                          /\ txn'[1][k].decide.escalation_team = JList(<<>>)
                          /\ txn'[1][k].decide.rationale = "template"
                          /\ txn'[1][k].raw_item_id = rec.raw_item_id
     /\ (pc[1] = "decide_pool" /\ pc'[1] = "idle") =>
          \A k \in 1..Len(txn[1]) :
             Cardinality({j \in 1..Len(items_decide') :
                            items_decide'[j].orient_id = txn[1][k].orient_id}) = 1]_vars

\* a Decide run is in its pool with one record short-circuited and, sent to
\* the service, a record whose title holds the name in another case
C12_Witness ==
  /\ InDecide(1)
  /\ \E k \in 1..Len(txn[1]) : txn[1][k].decide = noise_decide
  /\ \E k \in 1..Len(to_process[1]) :
        /\ ~contains(to_process[1][k].title, BRAND)
        /\ contains(lower(to_process[1][k].title), lower(BRAND))

\* C13 as claimed: every insert of an Orient or Decide invocation comes after
\* all the calls it dispatched have completed, so that while a call of the
\* invocation is outstanding no row has been inserted on its connection.
C13_InsertsAfterFanOut ==
  \A p \in Procs : pending[p] # {} => txn[p] = <<>>

\* C13 amended: all inserts are issued by main and none while a call is
\* outstanding.  The rows from answers (all rows of Orient) are inserted and
\* committed once every dispatched call has completed; the only rows inserted
\* earlier are the fixed NOISE rows of Decide's brand relevance check, which
\* are inserted before anything is dispatched.
C13_NoInsertDuringFanOut ==
  [][/\ pending[1] # {} =>
          /\ txn'[1] = txn[1]
          /\ items_orient' = items_orient
          /\ items_decide' = items_decide
     /\ \A k \in 1..Len(txn[1]) : txn[1][k].decide = noise_decide
     /\ (txn'[1] # txn[1] /\ txn'[1] # <<>>) => (pc[1] = "idle" /\ pending[1] = {})
     /\ items_orient' # items_orient =>
          /\ pc[1] = "orient_pool" /\ pending[1] = {}
          /\ Len(items_orient') = Len(items_orient) + Len(orient_inserts(results[1]))
     /\ items_decide' # items_decide =>
          /\ pc[1] = "decide_pool" /\ pending[1] = {}
          /\ Len(items_decide') = Len(items_decide) + Len(txn[1]) + Len(results[1])]_vars

\* a Decide run has returned after inserting rows of the brand relevance
\* check before its pool and rows of answers after it
C13_Witness ==
  /\ pc[1] = "idle" /\ prev.stage = "decide"
  /\ prev.done >= 1 /\ prev.new_rows > prev.done /\ prev.failed = 0

\* C14: at every moment of an invocation the calls a worker of its pool is
\* running are at most 6 for Orient and at most min(30, records to process)
\* for Decide, so never more than 30, however many batches or records were
\* submitted.
C14_CallsInFlightBounded ==
  \A p \in Procs :
     /\ InOrient(p) => Cardinality(orient_in_flight(p)) <= 6
     /\ InDecide(p) =>
          /\ Cardinality(decide_in_flight(p)) <= 30
          /\ Cardinality(decide_in_flight(p)) <= Len(to_process[p])

\* Orient has submitted seven batches: six calls are running and one waits
\* for a worker
C14_Witness ==
  /\ InOrient(1)
  /\ Len(batches[1]) = 7 /\ Cardinality(pending[1]) = 7
  /\ Cardinality(orient_in_flight(1)) = 6

\* the ids of the items of a batch
BatchIds(batch) == {batch[k].id : k \in 1..Len(batch)}

\* the elements of the answers gathered by invocation p that echo an id of
\* the batch of their own call, as <<result, position>>
OwnEchoes(p) ==
  {ij \in (1..Len(results[p])) \X (1..6 * chunk_size) :
     /\ ij[2] <= Len(results[p][ij[1]].out_items)
     /\ results[p][ij[1]].out_items[ij[2]].item_id \in BatchIds(results[p][ij[1]].batch)}

\* C15: the rows an Orient run writes are, one for one, the elements of the
\* answers that echo an id of the batch sent in their own call, and each row
\* carries the echoed id as raw_item_id; an element with an id that is not
\* in its batch, the id of an item of another batch of the run included,
\* gives no row.
C15_OnlyOwnBatchEchoesPersisted ==
  [][(pc[1] = "orient_pool" /\ pc'[1] = "idle") =>
       LET new == appended(items_orient, items_orient')
       IN /\ Len(new) = Cardinality(OwnEchoes(1))
          /\ \A k \in 1..Len(new) :
               \E ij \in OwnEchoes(1) :
                  /\ new[k].orient = results[1][ij[1]].out_items[ij[2]]
                  /\ new[k].raw_item_id = new[k].orient.item_id]_vars

\* both calls of a run have completed; the answer to the second batch holds
\* an element with the id of an item of the first batch, and the answer to
\* the first an element with the id of no item
C15_Witness ==
  /\ InOrient(1) /\ pending[1] = {} /\ Len(results[1]) = 2
  /\ \E i \in 1..2 : \E j \in 1..Len(results[1][i].out_items) :
        /\ results[1][i].out_items[j].item_id \notin BatchIds(results[1][i].batch)
        /\ results[1][i].out_items[j].item_id \in BatchIds(results[1][3 - i].batch)
  /\ \E i \in 1..2 : \E j \in 1..Len(results[1][i].out_items) :
        \A k \in 1..Len(items_raw) :
           items_raw[k].id # results[1][i].out_items[j].item_id

\* whether an aggregated item is a priority candidate: THREAT with urgency
\* medium or high, whatever the case it is written in, or a severity that is
\* a number of at least 60
PriorityCandidate(it) ==
  \/ /\ upper(it.intent_framing) = S_THREAT
     /\ lower(it.urgency) \in {S_medium, S_high}
  \/ it.severity.kind = "int" /\ it.severity.v >= 60

\* C16: priority_candidates_count of compute_stats is the number of items
\* that are THREAT with urgency medium or high, or have severity >= 60, each
\* counted once; when every item has urgency low it is the number of items
\* with severity >= 60.
C16_PriorityCount ==
  act_call # NoCall =>
     LET items == act_call.items
         n == act_call.stats.priority_candidates_count
     IN /\ n = Cardinality({i \in 1..Len(items) : PriorityCandidate(items[i])})
        /\ (\A i \in 1..Len(items) : items[i].urgency = S_low) =>
              n = Cardinality({i \in 1..Len(items) :
                                 /\ items[i].severity.kind = "int"
                                 /\ items[i].severity.v >= 60})

\* the stats of two items are computed: a THREAT with urgency HIGH and
\* severity 60, which meets both tests, and a NEUTRAL with severity 59, which
\* meets none
C16_Witness ==
  /\ act_call # NoCall
  /\ Len(act_call.items) = 2
  /\ act_call.stats.priority_candidates_count = 1
  /\ \E i \in 1..2 :
        /\ act_call.items[i].intent_framing = S_THREAT
        /\ act_call.items[i].urgency = <<"H", "I", "G", "H">>
        /\ act_call.items[i].severity = PyInt(60)
        /\ act_call.items[3 - i].intent_framing = S_NEUTRAL
        /\ act_call.items[3 - i].severity = PyInt(59)

\* the stored runs whose decided items hold no THREAT
RunsWithoutThreat ==
  {k \in 1..Len(runs_act) :
     \A i \in 1..Len(runs_act[k].act_json.items_used_full) :
        runs_act[k].act_json.items_used_full[i].intent_framing # S_THREAT}

\* C17: every ActRun persisted from decided items without a THREAT stores the
\* holding statement "not needed" and no action of the plan involves Legal.
C17_GatedWithoutThreat ==
  \A k \in RunsWithoutThreat :
     LET act == runs_act[k].act_json.act
     IN /\ "comms_package" \in DOMAIN act =>
             act["comms_package"].external_holding_statement = "not needed"
        /\ "action_plan_next_4_hours" \in DOMAIN act =>
             \A a \in 1..Len(act["action_plan_next_4_hours"]) :
                \A t \in 1..Len(act["action_plan_next_4_hours"][a].owner_team) :
                   act["action_plan_next_4_hours"][a].owner_team[t] # "Legal"

\* the position of the sample's elements in the aggregated list
SampleIsPrefix ==
  /\ Len(act_call.items_sample) <= Len(act_call.items)
  /\ \A i \in 1..Len(act_call.items_sample) :
        act_call.items_sample[i] = compact_item(act_call.items[i])

\* C18 as stated: the sample holds at most 12 items and no aggregated item
\* left out of it has a severity strictly greater than an included one.
C18_SampleHighestSeverity ==
  act_call # NoCall =>
     /\ Len(act_call.items_sample) <= sample_cap
     /\ \A i \in 1..Len(act_call.items_sample) :
          \A j \in (Len(act_call.items_sample) + 1)..Len(act_call.items) :
             ~(severity_key(act_call.items[j].severity)
                 > severity_key(act_call.items[i].severity))

\* C18 (amended): the sample holds at most 12 items and they are the most
\* recently decided of the aggregated set, in its order: the aggregated list
\* is in descending DecideRecord id, the sample is its first
\* min(12, length) items, so that no item left out has a DecideRecord id
\* greater than an included one.
C18_SampleMostRecentlyDecided ==
  act_call # NoCall =>
     /\ Len(act_call.items_sample) <= sample_cap
     /\ SampleIsPrefix
     /\ Len(act_call.items_sample) < Len(act_call.items) =>
          Len(act_call.items_sample) = sample_cap
     /\ \A i, j \in 1..Len(act_call.items) :
          i < j => act_call.items[i].decide_id > act_call.items[j].decide_id

\* thirteen items are aggregated, twelve are in the sample, and the one left
\* out, the oldest decision, has the highest severity of all
C18_Witness ==
  /\ act_call # NoCall
  /\ Len(act_call.items) = ActItems
  /\ Len(act_call.items_sample) = sample_cap
  /\ \A i \in 1..sample_cap :
        severity_key(act_call.items[ActItems].severity)
          > severity_key(act_call.items[i].severity)

CollectedNothing ==
  /\ ~orch.skip_collect
  /\ orch.at \notin {"start", "collect", "raised"}
  /\ Len(items_raw) = orch.rows_before

\* C20: in an orchestration run that does not skip collection and whose
\* ingest stage inserts no row, none of Orient, Decide and Act is invoked, and
\* the run ends with an exit status other than that of a completed pipeline.
C20_AbortsOnZeroNew ==
  CollectedNothing =>
     /\ orch.invoked \cap {"orient", "decide", "act"} = {}
     /\ orch.exit_code # PyNone => orch.exit_code # exit_returned

\* the OrientRecords of the brand whose raw item lies in the 7-day window
InWindow ==
  {i \in 1..Len(items_orient) :
     /\ items_orient[i].brand = BRAND
     /\ \E r \in raw_by_id(items_raw, items_orient[i].raw_item_id) :
          r.published_at >= Now - window_days}

\* C21: under repeated Decide invocations whose calls eventually succeed,
\* every OrientRecord of the brand in the 7-day window eventually has a
\* DecideRecord, however many OrientRecords the window holds.
C21_EveryRecordEventuallyDecided ==
  <>(\A i \in InWindow : already_decided(items_decide, items_orient[i].id))

\* the raw items that have an OrientRecord
Oriented == {items_orient[j].raw_item_id : j \in 1..Len(items_orient)}

\* C22: under repeated Orient invocations whose batch calls eventually
\* succeed and echo the ids they were sent, every RawItem eventually has an
\* OrientRecord.
C22_EveryRawEventuallyOriented ==
  <>(\A i \in 1..Len(items_raw) : items_raw[i].id \in Oriented)

\* a run has left out raw item 1, which has the title of raw item 3, and has
\* lost the echo of raw item 4: both are without an OrientRecord after it
C22_Witness ==
  /\ prev.stage = "orient"
  /\ pc[1] = "idle"
  /\ 3 \in Oriented
  /\ 1 \notin Oriented
  /\ 4 \notin Oriented

\* the OrientRecords of raw item id in a table
RecordsOf(table, id) == {j \in 1..Len(table) : table[j].raw_item_id = id}

\* the raw items without an OrientRecord
Unoriented == {i \in 1..Len(items_raw) : RecordsOf(items_orient, items_raw[i].id) = {}}

\* the title of a raw item without its case, its outer blanks and its
\* trailing " - Source"
StoryOf(i) == rsplit_head(lower(strip(items_raw[i].title)))

\* the unoriented raw items that are the most recent of their story among
\* the unoriented
MostRecentOfStory ==
  {i \in Unoriented :
     \A k \in Unoriented : StoryOf(k) = StoryOf(i) => items_raw[k].id <= items_raw[i].id}

\* the step that ends an Orient run
OrientRunEnds == pc[1] = "orient_pool" /\ pc'[1] = "idle"

CandText == lower(cand.entry.title \o <<" ">> \o cand.entry.summary)

NamesSubject == contains(CandText, lower(cand.brand))

HasKeyword == \E i \in 1..Len(keywords) : contains(CandText, lower(keywords[i]))

\* the tests of the loop other than the keyword filtering
OtherTestsPass ==
  /\ strip(cand.entry.title) # <<>> /\ strip(cand.entry.link) # <<>>
  /\ date_filter(cand.entry, cand.tz)

TrueTimestamp ==
  IF cand.entry.published_parsed # None THEN cand.entry.published_parsed
  ELSE cand.entry.updated_parsed

\* C25: every inserted candidate has a resolvable publication (or updated)
\* timestamp that is not older than the cutoff
C25_InsertedNotOlderThanCutoff ==
  cand.verdict = "insert" => TrueTimestamp # None /\ TrueTimestamp[1] >= cutoff


\* the key under which the loop looks an entry up and inserts it
KeyOf(entry) == strip(Or(Or(entry.id, entry.guid), strip(entry.link)))

\* the entries of the feeds whose fetch returned in the last ingest run
FetchedEntries ==
  UNION {{fetched.outcomes[f].entries[i] : i \in 1..Len(fetched.outcomes[f].entries)} :
           f \in Feeds \ fetched.raised}

\* C26: when the fetch of a feed raises during an ingest run, the run still
\* returns and commits, every entry of the feeds that were fetched and that
\* passes the filter is in items_raw afterwards, and every row the run added
\* comes from an entry of a feed that was fetched
C26_FailedFeedSkippedOthersIngested ==
  fetched.raised # {} =>
    /\ prev.stage = "collect" /\ prev.clean
    /\ \A entry \in FetchedEntries :
         passes_filter(entry) => raw_exists(items_raw, "rss", KeyOf(entry))
    /\ \A i \in (fetched.rows_before + 1)..Len(items_raw) :
         \E entry \in FetchedEntries :
            passes_filter(entry) /\ KeyOf(entry) = items_raw[i].source_item_id
    /\ prev.new_rows = Len(items_raw) - fetched.rows_before

C26_Witness ==
  /\ Cardinality(fetched.raised) = 1
  /\ Len(items_raw) > fetched.rows_before
  /\ prev.stage = "collect" /\ prev.clean


\* every row of the table is still there, unchanged, in the next state
RowsKept(table, next) ==
  /\ Len(table) <= Len(next)
  /\ \A i \in 1..Len(table) : next[i] = table[i]

\* the stage a step belongs to
IngestStep == runs'.collect # runs.collect
OrientStep == pc[1] \in {"orient_smoke", "orient_pool"}
DecideStep == pc[1] \in {"decide_smoke", "decide_pool"} \/ runs'.decide # runs.decide
ActStep == act_call # NoCall

\* C27: no step updates or deletes a row of items_raw, items_orient,
\* items_decide or runs_act, and a step that adds rows to one of the tables
\* belongs to the stage that owns it and leaves the three others unchanged
C27_AppendOnlyOwnTable ==
  [][/\ RowsKept(items_raw, items_raw') /\ RowsKept(items_orient, items_orient')
     /\ RowsKept(items_decide, items_decide') /\ RowsKept(runs_act, runs_act')
     /\ items_raw' # items_raw =>
          IngestStep /\ UNCHANGED <<items_orient, items_decide, runs_act>>
     /\ items_orient' # items_orient =>
          OrientStep /\ UNCHANGED <<items_raw, items_decide, runs_act>>
     /\ items_decide' # items_decide =>
          DecideStep /\ UNCHANGED <<items_raw, items_orient, runs_act>>
     /\ runs_act' # runs_act =>
          ActStep /\ UNCHANGED <<items_raw, items_orient, items_decide>>]_vars

\* two ingest runs and two Act runs have committed and every table holds
\* several rows
C27_Witness ==
  /\ Len(runs_act) = 2
  /\ Len(items_raw) > 1 /\ Len(items_orient) > 1 /\ Len(items_decide) > 1
  /\ runs.collect = 2


\* C28 as stated: every DecideRecord stored with intent_framing DEFENSE has
\* urgency low or medium, whatever the service answered
C28_DefenseNeverHigh ==
  \A i \in 1..Len(items_decide) :
     items_decide[i].decide.intent_framing = S_DEFENSE =>
        items_decide[i].decide.urgency \in {S_low, S_medium}

\* C28: a DecideRecord made from an answer of intent_framing DEFENSE is
\* stored with the urgency the service answered, high included, whenever
\* that urgency, trimmed and without regard to case, is low, medium or high,
\* and with urgency low otherwise
C28_DefenseUrgencyAsAnswered ==
  [][\A p \in Procs : (InDecide(p) /\ pc'[p] = "idle") =>
       \A i \in 1..Len(results[p]) :
          results[p][i].decide.intent_framing = S_DEFENSE =>
             \E j \in (Len(items_decide) + 1)..Len(items_decide') :
                /\ items_decide'[j].orient_id = results[p][i].orient_id
                /\ items_decide'[j].decide.intent_framing = S_DEFENSE
                /\ items_decide'[j].decide.urgency =
                     IF in_enum(results[p][i].answer.urgency, URGENCY_ENUM)
                     THEN results[p][i].answer.urgency ELSE S_low]_vars

C28_Witness ==
  \E i \in 1..Len(items_decide) :
     /\ items_decide[i].decide.intent_framing = S_DEFENSE
     /\ items_decide[i].decide.urgency = S_high
     /\ items_decide[i].decide.rationale = "service"


\* a step in which an invocation of the Act stage ends: main returns at "No
\* DECIDE items found", or the synthesis call returns or raises
ActReturnsNoItems ==
  act_call = NoCall /\ act_call' = NoCall /\ prev' # prev /\ prev'.stage = "act"

ActCallEnds == act_call # NoCall /\ act_call' = NoCall

\* C29 as stated: every invocation of the Act stage appends exactly one row
\* to runs_act, also when there is no decided item in the window
C29_OneRowPerInvocation ==
  [][ActReturnsNoItems \/ ActCallEnds => Len(runs_act') = Len(runs_act) + 1]_vars

\* C29: an invocation of the Act stage that selects at least one decided item
\* and whose synthesis call returns a document appends exactly one row to
\* runs_act; an invocation that selects no item, or whose call raises,
\* appends none
C29_OneRowPerCompletedRun ==
  [][/\ ActCallEnds /\ prev'.failed = 0 =>
          /\ act_call.items # <<>>
          /\ Len(runs_act') = Len(runs_act) + 1
          /\ RowsKept(runs_act, runs_act')
     /\ ActCallEnds /\ prev'.failed = 1 => runs_act' = runs_act
     /\ ActReturnsNoItems =>
          /\ fetch_full_ooda_view(items_raw, items_orient, items_decide, BRAND,
                                  act_limit) = <<>>
          /\ runs_act' = runs_act]_vars

\* two invocations whose call returned a document have each appended a row
C29_Witness ==
  /\ Len(runs_act) = 2
  /\ prev.stage = "act" /\ prev.done = 1
  /\ runs_act[1].id = 1 /\ runs_act[2].id = 2


\* C30: every OrientRecord stored has reputational_risk low, medium or high
\* and a severity from 0 to 100, whatever the service answered
C30_RiskAndSeverityInRange ==
  \A i \in 1..Len(items_orient) :
     /\ items_orient[i].orient.reputational_risk \in {"low", "medium", "high"}
     /\ items_orient[i].orient.severity.kind = "int"
     /\ items_orient[i].orient.severity.v \in 0..100


\* the DecideRecords of the brand whose raw item was published in the window
DecidedInWindow ==
  {i \in 1..Len(items_decide) :
     /\ items_decide[i].brand = BRAND
     /\ \E k \in 1..Len(items_raw) :
           /\ items_raw[k].id = items_decide[i].raw_item_id
           /\ items_raw[k].published_at >= Now - act_window_days}

OrientEndsIdle(p) == pc[p] = "orient_pool" /\ pc'[p] = "idle" /\ batches[p] = <<>>

DecideEndsEmpty(p) == pc[p] = "idle" /\ pc'[p] = "idle" /\ runs'.decide # runs.decide

DecideEndsAllDecided(p) ==
  pc[p] = "decide_pool" /\ pc'[p] = "idle" /\ to_process[p] = <<>> /\ txn[p] = <<>>

\* such an invocation inserts nothing, has made no classification call and
\* returns normally
EndsQuietly(p) ==
  /\ UNCHANGED <<items_raw, items_orient, items_decide, runs_act>>
  /\ results[p] = <<>>
  /\ prev'.clean /\ prev'.new_rows = 0 /\ prev'.done = 0 /\ prev'.failed = 0

PointsToPrerequisite(message) ==
  message = "No ORIENT records found. Run ORIENT first."

\* C32 as stated: an Orient or Decide invocation that finds nothing to
\* process inserts no row, makes no classification call, returns normally
\* and prints a message that points to the prerequisite stage
C32_QuietWithPointer ==
  [][\A p \in {1} :
       OrientEndsIdle(p) \/ DecideEndsEmpty(p) \/ DecideEndsAllDecided(p) =>
          EndsQuietly(p) /\ PointsToPrerequisite(report'[p].message)]_vars

\* C32: such an invocation inserts no row, makes no classification call and
\* returns normally; only the Decide run whose selection is empty prints the
\* message that points to Orient; the Orient run and the Decide run whose
\* selected records are all decided end with their ordinary closing line,
\* the latter counting every selected record as skipped
C32_QuietPointerOnlyOnEmptySelection ==
  [][\A p \in {1} :
       /\ OrientEndsIdle(p) =>
            EndsQuietly(p) /\ report'[p].message = "Done. ORIENT outputs saved"
       /\ DecideEndsEmpty(p) =>
            EndsQuietly(p) /\ PointsToPrerequisite(report'[p].message)
       /\ DecideEndsAllDecided(p) =>
            /\ EndsQuietly(p)
            /\ report'[p].message = "New decisions | skipped (already decided)"
            /\ report'[p].done = 0 /\ report'[p].skipped > 0]_vars

\* a Decide run has found every selected record decided
C32_Witness ==
  /\ prev.stage = "decide" /\ prev.new_rows = 0 /\ runs.decide = 2
  /\ report[1].message = "New decisions | skipped (already decided)"
  /\ report[1].done = 0 /\ report[1].skipped > 0


\* the place of each stage in the order of the run
StageRank == [init |-> 1, collect |-> 2, orient |-> 3, decide |-> 4, act |-> 5]

\* the stage that returned last was left by an exception
LastStageRaised ==
  \/ prev.stage \in {"orient", "decide"} /\ smoke[1] \notin {"none", "ok"}
  \/ prev.stage \in {"collect", "act"} /\ ~prev.clean

\* C33: in an orchestration run a stage is called only after the stages
\* called before it, which all come earlier in the order init, ingest,
\* Orient, Decide, Act, have returned, and never after a stage has raised;
\* a stage runs only while it is the one the orchestrator has called
C33_StagesInOrder ==
  [][/\ \A s \in orch'.invoked \ orch.invoked :
          /\ \A t \in orch.invoked : StageRank[t] < StageRank[s]
          /\ NoStageRunning
          /\ ~LastStageRaised
          /\ orch.at # "raised"
     /\ runs'.collect # runs.collect => orch.at = "collect"
     /\ pc[1] # "idle" \/ pc'[1] # "idle" =>
          \/ orch.at = "orient" /\ runs'.orient = 1 /\ runs'.decide = 0
          \/ orch.at = "decide" /\ runs'.decide = 1
     /\ act_call # NoCall \/ act_call' # NoCall => orch.at = "act"
     /\ orch.at = "raised" => orch' = orch]_vars

\* the smoke test of Orient raised and the run ended there
C33_Witness ==
  /\ orch.at = "raised"
  /\ prev.stage = "orient" /\ smoke[1] = "AuthenticationError"
  /\ orch.invoked = {"init", "collect", "orient"}


\* the selected records that already have a DecideRecord, as a Decide run
\* starting now finds them
SelectedAlreadyDecided ==
  LET records == fetch_recent_orient_with_raw(items_raw, items_orient, BRAND,
                                              decide_limit)
  IN Cardinality({k \in 1..Len(records) :
                    already_decided(items_decide, records[k].orient_id)})

\* C34: at the end of every Decide run the reported count of new decisions
\* is the number of rows the run inserted into items_decide, and the
\* reported skipped count is the number of selected records that were
\* already decided when the run started
C34_ReportedCountsMatch ==
  [][\A p \in Procs :
       /\ pc[p] = "idle" /\ pc'[p] = "decide_pool" =>
            report'[p].skipped = SelectedAlreadyDecided
       /\ pc[p] = "decide_pool" /\ pc'[p] = "idle" =>
            /\ report'[p].done = Len(items_decide') - Len(items_decide)
            /\ report'[p].skipped = report[p].skipped]_vars


\* C35: every DecideRecord's orient_id is the id of a stored OrientRecord
\* with the same raw_item_id, and every OrientRecord's raw_item_id is the id
\* of a stored RawItem
C35_ChainNeverDanglingOrCrossed ==
  /\ \A i \in 1..Len(items_decide) :
        \E j \in 1..Len(items_orient) :
           /\ items_orient[j].id = items_decide[i].orient_id
           /\ items_orient[j].raw_item_id = items_decide[i].raw_item_id
  /\ \A j \in 1..Len(items_orient) :
        \E k \in 1..Len(items_raw) : items_raw[k].id = items_orient[j].raw_item_id

\* two decided records whose orient ids and raw item ids are in opposite
\* orders, after more than one Orient run
C35_Witness ==
  /\ runs.orient >= 2
  /\ \E i, j \in 1..Len(items_decide) :
        /\ items_decide[i].orient_id < items_decide[j].orient_id
        /\ items_decide[i].raw_item_id > items_decide[j].raw_item_id


\* the sum of the counts of a distribution
RECURSIVE TotalOver(_, _)
TotalOver(dist, keys) ==
  IF keys = {} THEN 0
  ELSE LET k == CHOOSE x \in keys : TRUE
       IN dist[k] + TotalOver(dist, keys \ {k})

Total(dist) == TotalOver(dist, DOMAIN dist)

NumericItems ==
  {i \in 1..Len(act_call.items) : act_call.items[i].severity.kind = "int"}

Elements(s) == {s[i] : i \in 1..Len(s)}

\* the rows a step appended to a table, without their ids
Appended(table, next) ==
  {[f \in DOMAIN next[i] \ {"id"} |-> next[i][f]] : i \in (Len(table) + 1)..Len(next)}

\* the runs in slots p and q are at the end of their pools with the same
\* selection and the same outcome for every record
SameOutcomes(p, q) ==
  /\ pc[p] = pc[q] /\ pc[p] \in {"orient_pool", "decide_pool"}
  /\ pool_joined(p) /\ pool_joined(q)
  /\ batches[p] = batches[q] /\ to_process[p] = to_process[q] /\ txn[p] = txn[q]
  /\ Elements(results[p]) = Elements(results[q])

\* C37: of two runs of Orient, or of Decide, on the same selection whose
\* calls had the same outcome for every record, the one that commits
\* persists the record contents (upstream reference and classification)
\* that the other, whatever the order its calls completed in, persists
C37_ContentsIndependentOfOrder ==
  [][\A p, q \in Procs :
       SameOutcomes(p, q) /\ pc'[p] = "idle" /\ pc'[q] = pc[q] =>
         /\ pc[p] = "orient_pool" =>
              Appended(items_orient, items_orient')
                = Elements(orient_inserts(results[q]))
         /\ pc[p] = "decide_pool" =>
              Appended(items_decide, items_decide')
                = Elements(txn[q] \o decide_inserts(results[q], BRAND))]_vars

\* two Decide runs on one selection (one record short-circuited, two
\* answered) with the same two outcomes completed in opposite orders, the
\* first of them committed
C37_Witness ==
  /\ pc[1] = "idle" /\ pc[2] = "decide_pool" /\ pool_joined(2)
  /\ Len(txn[2]) = 1 /\ Len(results[2]) = 2
  /\ Len(items_decide) = 3
  /\ Elements(txn[2] \o decide_inserts(results[2], BRAND)) = Appended(<<>>, items_decide)
  /\ results[2][1].orient_id = items_decide[3].orient_id
  /\ results[2][2].orient_id = items_decide[2].orient_id
  /\ items_decide[2].decide # items_decide[3].decide


\* C38: with APP_PASSWORD configured, a script run gets past the gate to
\* the brand input, or starts the orchestrator, only in an authenticated
\* session; the session becomes authenticated only in a run whose password
\* field holds APP_PASSWORD; an authenticated session stays authenticated
C38_GateHolds ==
  [][session.password # "" =>
       /\ session'.at = "body" => session'.authed
       /\ session'.shown = "brand" => session'.authed
       /\ session'.launches # session.launches => session.authed
       /\ ~session.authed /\ session'.authed =>
            /\ session.at = "idle"
            /\ session'.app_pwd = session.password
       /\ session.authed => session'.authed]_vars

\* APP_PASSWORD was entered in a run after the one that rendered the field,
\* and the orchestrator started from the authenticated session has ended
C38_Witness ==
  /\ session.password = "pw"
  /\ session.authed
  /\ session.launches = 1
  /\ orch.at = "done"

=============================================================================
